---- MODULE Spec2Model ----
(***************************************************************************)
(* A model of the Jailhouse partitioning hypervisor core:                  *)
(*   - the bring-up coordinator, entry() in hypervisor/setup.c;            *)
(*   - the per-CPU VMX life cycle, vmx_cpu_init / vmx_cpu_exit;            *)
(*   - the VM-exit dispatcher vmx_handle_exit and the hypercall handler;   *)
(*   - the EPT manager (vmx_cell_init, vmx_linux_cell_shrink, ...);        *)
(*   - the VT-d manager (vtd_cell_init, vtd_cell_exit, ...).               *)
(* The specifications SpecBoot, SpecExit, SpecCells and SpecEpt share the  *)
(* module.                                                                 *)
(* Each one moves only its own variables and leaves the others parked.     *)
(***************************************************************************)
EXTENDS Integers, Sequences, FiniteSets, TLC

(***************************************************************************)
(* Bounds of the model.                                                    *)
(***************************************************************************)
\* Number of CPUs the loader sends into entry(); it publishes the same
\* number as hypervisor_header.online_cpus.
NumCpus == 3
\* Pages of system memory.
NumPages == 2
\* Cells that can exist beside the root cell.
MaxCells == 2
\* Pages of mem_pool.
PoolSize == 7
\* I/O ports covered by the port bitmaps.
NumPorts == 2
\* DMAR units vtd_init() can find.
MaxDmarUnits == 2

(***************************************************************************)
(* Status codes.  The values are the errno numbers of jailhouse/types.h;   *)
(* the code always returns them negated.                                   *)
(***************************************************************************)
EPERM == 1
EIO == 5
ENOMEM == 12
EBUSY == 16
ENODEV == 19
EINVAL == 22
ERANGE == 34
ENOSYS == 38

VARIABLES
    \* ---- bring-up coordinator (hypervisor/setup.c) ----
    pc,               \* position of each CPU inside entry()
    init_lock,        \* holder of init_lock, or NoCpu
    master_cpu_id,    \* -1 until init_early claims it
    initialized_cpus, \* volatile counter
    error,            \* volatile shared error flag
    percpu,           \* per CPU: entry()'s local 'master', cpu_init()'s local
                      \* 'err', cpu_data->cell, the value entry() returned
                      \* ("none" before), the number of arch_cpu_restore
                      \* calls and whether arch_cpu_activate_vmm was called
    linux_cpu_set,    \* linux_cell.cpu_set->bitmap, as a set of CPU ids
    sysconf,          \* system_config->system: cpu_set, cpu_set_size * 8
    hist,             \* history: CPUs that executed initialized_cpus++, CPUs
                      \* that left the busy-wait on error != 0, the CPUs that
                      \* ran init_early and init_late, in order
    \* ---- per-CPU VMX state (vmx.c) ----
    vmx_state,        \* cpu_data->vmx_state
    cr4_vmxe,         \* CR4.VMXE of each CPU
    vmx_trans,        \* history: set of <<from, to>> vmx_state changes per CPU
    \* ---- VM-exit handling on one CPU (vmx.c, entry.S vm_exit) ----
    xpc,              \* "guest", "exit" (vm_exit before vmx_handle_exit),
                      \* "resume" (handler returned, before VMRESUME),
                      \* "halted" (panic_stop) or "linux" (VMX left)
    exit_reason,      \* VM_EXIT_REASON: bit 31 'failed' and the basic reason
    exit_qual,        \* EXIT_QUALIFICATION, decoded
    guest_regs,       \* struct registers saved by vm_exit
    vmcs,             \* the VMCS fields the handlers read or write
    xlog,             \* what the last vmx_handle_exit did (history)
    snap,             \* guest_regs and vmcs as they were at the VM exit
    \* ---- cells: EPT manager (vmx.c) and VT-d manager (vtd.c) ----
    cells,            \* per cell id: state and cell->config
    ept,              \* per cell: the EPT, guest page -> mapping
    ept_root,         \* per cell: cell->vmx.ept, a page of mem_pool
    io_bitmap,        \* per cell: cell->vmx.io_bitmap, the blocked ports
    ept_stale,        \* an EPT changed and INVEPT has not run since
    vtd_pt,           \* per cell: the VT-d page table, page -> mapping
    vtd_root,         \* per cell: cell->vtd.page_table, a page of mem_pool
    root_entry_table, \* per bus: PRESENT bit and context table address
    pool_used,        \* allocated pages of mem_pool
    page_kind,        \* what each page of mem_pool was last allocated as
    ctx_tab,          \* content of the pages used as context tables
    vtd_tes,          \* VTD_GSTS_TES: DMA translation is enabled
    flush_log,        \* <<unit, did>> of each flush, in order, issued by
                      \* the function that ran last
    halted,           \* panic_stop() was called
    wild,             \* memory outside every table was written or freed
    root_remap,       \* history: pages mapped into the root cell's EPT by
                      \* vmx_map_memory_region() and not removed since
    op,               \* the cell operation in progress and its cell
    dmar_units,       \* number of DMAR units vtd_init() found
    \* ---- vmx_cpu_init / vmx_cpu_exit called on one CPU (vmx.c) ----
    vmx_last,         \* the last call: which function, the hardware it saw,
                      \* the state it started from, what it returned and
                      \* which instructions it executed; and whether the
                      \* CPU is in VMX operation
    \* ---- two CPUs inside the VT-d manager at once (vtd.c) ----
    adm               \* per CPU: the statement it is at and the locals of
                      \* vtd_add_device_to_cell / vtd_remove_device_from_cell

bootVars == <<pc, init_lock, master_cpu_id, initialized_cpus, error, percpu,
              linux_cpu_set, sysconf, hist>>
vmxVars == <<vmx_state, cr4_vmxe, vmx_trans>>
exitVars == <<xpc, exit_reason, exit_qual, guest_regs, vmcs, xlog, snap>>
cellVars == <<cells, ept, ept_root, io_bitmap, ept_stale, vtd_pt, vtd_root,
              root_entry_table, pool_used, page_kind, ctx_tab, vtd_tes,
              flush_log, halted, wild, root_remap, op, dmar_units>>
lifeVars == <<vmx_last, adm>>
nonBootVars == <<exitVars, cellVars, lifeVars>>
vars == <<bootVars, vmxVars, exitVars, cellVars, lifeVars>>

Cpus == 0 .. (NumCpus - 1)
NoCpu == -1

\* hypervisor_header.online_cpus, written by the loader before entry().
online_cpus == NumCpus

(***************************************************************************)
(* vmx_state values (asm/vmx.h: enum vmx_state).                          *)
(***************************************************************************)
VMXOFF == "VMXOFF"
VMXON == "VMXON"
VMCS_READY == "VMCS_READY"

(***************************************************************************)
(* Hardware as vmx_cpu_init sees it: one flag per value it reads (CPUID,   *)
(* the VMX capability MSRs, IA32_FEATURE_CONTROL) and per instruction      *)
(* whose success it tests.  GoodHw passes every test.                      *)
(***************************************************************************)
GoodHw ==
    [vmx_feature |-> TRUE,          \* cpuid_ecx(1) & X86_FEATURE_VMX
     vmcs_size_ok |-> TRUE,         \* VMX_BASIC[44:32] <= PAGE_SIZE
     vmcs_memtype_wb |-> TRUE,      \* VMX_BASIC[53:50] == write-back
     pin_nmi_exiting |-> TRUE,
     pin_preemption_timer |-> TRUE,
     proc_io_bitmaps |-> TRUE,
     proc_msr_bitmaps |-> TRUE,
     proc_secondary |-> TRUE,
     sec_apic_access |-> TRUE,
     sec_ept |-> TRUE,
     ept_mandatory |-> TRUE,        \* EPT_MANDATORY_FEATURES all present
     ept_invept |-> TRUE,           \* INVEPT single or global
     sec_unrestricted |-> TRUE,
     misc_hlt |-> TRUE,             \* VMX_MISC_ACTIVITY_HLT
     fc_locked |-> TRUE,            \* FEATURE_CONTROL_LOCKED
     fc_vmxon |-> TRUE,             \* FEATURE_CONTROL_VMXON_ENABLED_OUTSIDE_SMX
     vmxon_ok |-> TRUE]

\* GoodHw and every hardware that differs from it in one flag.
HwCases == {GoodHw} \cup {[GoodHw EXCEPT ![f] = ~GoodHw[f]] : f \in DOMAIN GoodHw}

\* Outcomes of vmcs_clear, vmcs_load and vmcs_setup (the latter is the
\* conjunction of every vmcs_write of vmcs_setup).
VmcsCases == [clear_ok : BOOLEAN, load_ok : BOOLEAN, setup_ok : BOOLEAN]

\* The VMCS writes of vmcs_setup in the order of the source, by group: host
\* state, guest CR0/CR4 (vmx_set_guest_cr), guest state, execution
\* controls, cell configuration (vmx_set_cell_config), exit and entry
\* controls.
VmcsSetupWrites == <<"host_state", "guest_cr", "guest_state", "exec_controls",
                     "cell_config", "exit_entry_controls">>
VmcsWriteGroups == {VmcsSetupWrites[i] : i \in 1 .. Len(VmcsSetupWrites)}

\* A vmcs_setup that returns the result of its last write.
vmcs_setup_last_write(w) == w[VmcsSetupWrites[Len(VmcsSetupWrites)]]

\* vmcs_setup: 'ok &= vmcs_write...' for every field, then 'return ok'.
vmcs_setup(w) == \A g \in VmcsWriteGroups : w[g]

\* A run of VMCLEAR, VMPTRLD and the writes of vmcs_setup in which
\* everything succeeds, and the runs in which one of them fails.
GoodRun == [clear_ok |-> TRUE, load_ok |-> TRUE,
            writes |-> [g \in VmcsWriteGroups |-> TRUE]]
VmcsRuns ==
    {GoodRun, [GoodRun EXCEPT !.clear_ok = FALSE],
     [GoodRun EXCEPT !.load_ok = FALSE]}
    \cup {[GoodRun EXCEPT !.writes[g] = FALSE] : g \in VmcsWriteGroups}

\* What vmx_cpu_init sees of a run.
VmcsOutcome(run) ==
    [clear_ok |-> run.clear_ok, load_ok |-> run.load_ok,
     setup_ok |-> vmcs_setup(run.writes)]

\* vmx_cpu_init_checks with -EIO for a CPU without the VMX feature bit.
vmx_cpu_init_checks_eio(hw, cr4) ==
    IF ~hw.vmx_feature THEN -EIO
    ELSE IF cr4 THEN -EBUSY
    ELSE IF \E f \in DOMAIN hw \ {"fc_locked", "fc_vmxon", "vmxon_ok"} : ~hw[f]
         THEN -EIO
    ELSE IF ~hw.fc_vmxon /\ hw.fc_locked THEN -ENODEV
    ELSE 0

\* vmx_cpu_init up to the feature-control test: the status it returns
\* before touching CR4, or 0.
vmx_cpu_init_checks(hw, cr4) ==
    IF ~hw.vmx_feature THEN -ENODEV
    ELSE IF cr4 THEN -EBUSY
    ELSE IF ~hw.vmcs_size_ok THEN -EIO
    ELSE IF ~hw.vmcs_memtype_wb THEN -EIO
    ELSE IF ~hw.pin_nmi_exiting \/ ~hw.pin_preemption_timer THEN -EIO
    ELSE IF ~hw.proc_io_bitmaps \/ ~hw.proc_msr_bitmaps \/ ~hw.proc_secondary
         THEN -EIO
    ELSE IF ~hw.sec_apic_access \/ ~hw.sec_ept \/ ~hw.ept_mandatory
            \/ ~hw.ept_invept \/ ~hw.sec_unrestricted
         THEN -EIO
    ELSE IF ~hw.misc_hlt THEN -EIO
    ELSE IF ~(hw.fc_locked /\ hw.fc_vmxon) /\ hw.fc_locked THEN -ENODEV
    ELSE 0

\* vmx_cpu_init from its start to 'cpu_data->vmx_state = VMXON'.
\* Result: the status so far, the new vmx_state and the new CR4.VMXE.
vmx_cpu_init_enable_skip_on(hw, state, cr4) ==
    LET chk == vmx_cpu_init_checks(hw, cr4) IN
    IF chk # 0 THEN [ret |-> chk, state |-> state, cr4 |-> cr4]
    ELSE IF ~hw.vmxon_ok THEN [ret |-> -EIO, state |-> state, cr4 |-> cr4]
    ELSE [ret |-> 0, state |-> state, cr4 |-> TRUE]

vmx_cpu_init_enable(hw, state, cr4) ==
    LET chk == vmx_cpu_init_checks(hw, cr4) IN
    IF chk # 0 THEN [ret |-> chk, state |-> state, cr4 |-> cr4]
    ELSE IF ~hw.vmxon_ok THEN [ret |-> -EIO, state |-> state, cr4 |-> cr4]
    ELSE [ret |-> 0, state |-> VMXON, cr4 |-> TRUE]

\* The rest of vmx_cpu_init: vmcs_clear, vmcs_load, vmcs_setup, then READY.
vmx_cpu_init_vmcs(v, state) ==
    IF ~v.clear_ok \/ ~v.load_ok \/ ~v.setup_ok
    THEN [ret |-> -EIO, state |-> state]
    ELSE [ret |-> 0, state |-> VMCS_READY]

\* vmx_cpu_init as a whole: its status, the new vmx_state and CR4.VMXE.
vmx_cpu_init(hw, v, state, cr4) ==
    LET a == vmx_cpu_init_enable(hw, state, cr4)
        b == vmx_cpu_init_vmcs(v, a.state)
    IN  IF a.ret # 0 THEN a
        ELSE [ret |-> b.ret, state |-> b.state, cr4 |-> a.cr4]

\* vmx_cpu_exit without the test of vmx_state.
vmx_cpu_exit_untested(state, cr4) ==
    [state |-> VMXOFF, cr4 |-> FALSE,
     done |-> <<"vmcs_clear", "vmxoff", "write_cr4">>]

\* vmx_cpu_exit: the new vmx_state and CR4.VMXE, and what it executed.
vmx_cpu_exit(state, cr4) ==
    IF state = VMXOFF THEN [state |-> state, cr4 |-> cr4, done |-> <<>>]
    ELSE [state |-> VMXOFF, cr4 |-> FALSE,
          done |-> <<"vmcs_clear", "vmxoff", "write_cr4">>]

\* Assignment to cpu_data->vmx_state of CPU c, recorded in the history.
SetVmxState(c, new, newcr4) ==
    /\ vmx_state' = [vmx_state EXCEPT ![c] = new]
    /\ cr4_vmxe' = [cr4_vmxe EXCEPT ![c] = newcr4]
    /\ vmx_trans' = IF new = vmx_state[c] THEN vmx_trans
                    ELSE [vmx_trans EXCEPT ![c] = @ \cup {<<vmx_state[c], new>>}]

(***************************************************************************)
(* Bring-up coordinator: entry() and its helpers, hypervisor/setup.c.      *)
(***************************************************************************)
\* entry() has not returned on the CPU; what it returns is 0 or negative.
NotReturned == 1

\* Statuses init_early can leave in 'error' (paging_init, page_alloc,
\* page_map_create, check_mem_regions, arch_init_early, cell_init).
InitEarlyOutcomes == {0, -ENOMEM, -EINVAL}
\* Statuses arch_init_late can return.
InitLateOutcomes == {0, -EIO}

\* register_linux_cpu without the test_bit() on the configured CPU set.
register_linux_cpu_range_only(c) ==
    IF c >= sysconf.cpu_set_bits THEN -EINVAL ELSE 0

\* register_linux_cpu: its status.
register_linux_cpu(c) ==
    IF c >= sysconf.cpu_set_bits \/ c \notin sysconf.cpu_set
    THEN -EINVAL ELSE 0

\* The loop condition's second half: the barrier is open for a CPU that
\* read n from initialized_cpus.
BarrierOpenEarly(n) == ~(n < online_cpus - 1)

BarrierOpen(n) == ~(n < online_cpus)

\* The loader calls entry() on a CPU.
BootCall(c) ==
    /\ pc[c] = "idle"
    /\ pc' = [pc EXCEPT ![c] = "spin_lock"]
    /\ UNCHANGED <<init_lock, master_cpu_id, initialized_cpus, error, percpu,
                   linux_cpu_set, sysconf, hist, vmxVars>>
    /\ UNCHANGED nonBootVars

\* A lock that lets a CPU in while another holds it.
SpinLockFreeAlways == TRUE

\* spin_lock(&init_lock) returns once no CPU holds the lock.
SpinLockFree == init_lock = NoCpu

\* A test that also sends a CPU into init_early after an error.
MasterTestOrError == master_cpu_id = -1 \/ error # 0

\* entry: if (master_cpu_id == -1)
MasterTest == master_cpu_id = -1

\* spin_lock(&init_lock); if (master_cpu_id == -1) { master = true;
\* init_early(cpu_id); }  followed by the test 'if (!error)'.
BootLock(c) ==
    /\ pc[c] = "spin_lock"
    /\ SpinLockFree
    /\ init_lock' = c
    /\ IF MasterTest
       THEN \E e \in InitEarlyOutcomes :
               /\ percpu' = [percpu EXCEPT ![c].master = TRUE]
               /\ master_cpu_id' = c
               /\ error' = e
               /\ hist' = [hist EXCEPT !.early_runs = Append(@, c)]
               /\ pc' = [pc EXCEPT ![c] = IF e = 0 THEN "register" ELSE "unlock"]
       ELSE /\ pc' = [pc EXCEPT ![c] = IF error = 0 THEN "register" ELSE "unlock"]
            /\ UNCHANGED <<percpu, master_cpu_id, error, hist>>
    /\ UNCHANGED <<initialized_cpus, linux_cpu_set, sysconf, vmxVars>>
    /\ UNCHANGED nonBootVars

\* cpu_init: err = register_linux_cpu(cpu_data); if (err) goto failed;
BootRegister(c) ==
    /\ pc[c] = "register"
    /\ LET r == register_linux_cpu(c) IN
       IF r # 0
       THEN /\ pc' = [pc EXCEPT ![c] = "failed"]
            /\ percpu' = [percpu EXCEPT ![c].err = r]
            /\ UNCHANGED linux_cpu_set
       ELSE /\ pc' = [pc EXCEPT ![c] = "arch_cpu_init"]
            /\ percpu' = [percpu EXCEPT ![c].err = r, ![c].cell = "linux"]
            /\ linux_cpu_set' = linux_cpu_set \cup {c}
    /\ UNCHANGED <<init_lock, master_cpu_id, initialized_cpus, error, sysconf,
                   hist, vmxVars>>
    /\ UNCHANGED nonBootVars

\* cpu_init: err = arch_cpu_init(cpu_data), which is vmx_cpu_init; here its
\* first half, up to VMXON.
BootVmxEnable(c) ==
    /\ pc[c] = "arch_cpu_init"
    /\ \E hw \in HwCases :
          LET r == vmx_cpu_init_enable(hw, vmx_state[c], cr4_vmxe[c]) IN
          /\ SetVmxState(c, r.state, r.cr4)
          /\ percpu' = [percpu EXCEPT ![c].err = r.ret]
          /\ pc' = [pc EXCEPT ![c] = IF r.ret # 0 THEN "failed" ELSE "vmcs"]
    /\ UNCHANGED <<init_lock, master_cpu_id, initialized_cpus, error,
                   linux_cpu_set, sysconf, hist>>
    /\ UNCHANGED nonBootVars

\* The second half of vmx_cpu_init: clear, load and set up the VMCS.
BootVmcs(c) ==
    /\ pc[c] = "vmcs"
    /\ \E v \in VmcsCases :
          LET r == vmx_cpu_init_vmcs(v, vmx_state[c]) IN
          /\ SetVmxState(c, r.state, cr4_vmxe[c])
          /\ percpu' = [percpu EXCEPT ![c].err = r.ret]
          /\ pc' = [pc EXCEPT ![c] = IF r.ret # 0 THEN "failed" ELSE "count"]
    /\ UNCHANGED <<init_lock, master_cpu_id, initialized_cpus, error,
                   linux_cpu_set, sysconf, hist>>
    /\ UNCHANGED nonBootVars

\* cpu_init, success: memory_barrier(); initialized_cpus++;
BootCount(c) ==
    /\ pc[c] = "count"
    /\ initialized_cpus' = initialized_cpus + 1
    /\ hist' = [hist EXCEPT !.counted = @ \cup {c}]
    /\ pc' = [pc EXCEPT ![c] = "late"]
    /\ UNCHANGED <<init_lock, master_cpu_id, error, percpu, linux_cpu_set,
                   sysconf, vmxVars>>
    /\ UNCHANGED nonBootVars

\* cpu_init, label failed: if (!error) error = err;
BootFailed(c) ==
    /\ pc[c] = "failed"
    /\ error' = IF error = 0 THEN percpu[c].err ELSE error
    /\ pc' = [pc EXCEPT ![c] = "late"]
    /\ UNCHANGED <<init_lock, master_cpu_id, initialized_cpus, percpu,
                   linux_cpu_set, sysconf, hist, vmxVars>>
    /\ UNCHANGED nonBootVars

\* A test that runs init_late on the master whatever 'error' holds.
InitLateTestMasterOnly(c) == percpu[c].master

\* entry: if (master && !error)
InitLateTest(c) == percpu[c].master /\ error = 0

\* entry: if (master && !error) init_late();
BootLate(c) ==
    /\ pc[c] = "late"
    /\ IF InitLateTest(c)
       THEN \E e \in InitLateOutcomes :
               /\ error' = e
               /\ hist' = [hist EXCEPT !.late_runs = Append(@, c)]
       ELSE UNCHANGED <<error, hist>>
    /\ pc' = [pc EXCEPT ![c] = "unlock"]
    /\ UNCHANGED <<init_lock, master_cpu_id, initialized_cpus, percpu,
                   linux_cpu_set, sysconf, vmxVars>>
    /\ UNCHANGED nonBootVars

\* spin_unlock(&init_lock);
BootUnlock(c) ==
    /\ pc[c] = "unlock"
    /\ init_lock = c
    /\ init_lock' = NoCpu
    /\ pc' = [pc EXCEPT ![c] = "wait_error"]
    /\ UNCHANGED <<master_cpu_id, initialized_cpus, error, percpu,
                   linux_cpu_set, sysconf, hist, vmxVars>>
    /\ UNCHANGED nonBootVars

\* A busy-wait that does not look at 'error'.
BootWaitTestNever == FALSE

\* while (!error && ...): the first half of the condition fails.
BootWaitTest == error # 0

\* while (!error && ...): the read of 'error'.
BootWaitError(c) ==
    /\ pc[c] = "wait_error"
    /\ IF BootWaitTest
       THEN /\ pc' = [pc EXCEPT ![c] = "check_error"]
            /\ hist' = [hist EXCEPT !.left_with_error = @ \cup {c}]
       ELSE /\ pc' = [pc EXCEPT ![c] = "wait_count"]
            /\ UNCHANGED hist
    /\ UNCHANGED <<init_lock, master_cpu_id, initialized_cpus, error, percpu,
                   linux_cpu_set, sysconf, vmxVars>>
    /\ UNCHANGED nonBootVars

\* while (... && initialized_cpus < hypervisor_header.online_cpus)
\*     cpu_relax();
BootWaitCount(c) ==
    /\ pc[c] = "wait_count"
    /\ pc' = [pc EXCEPT ![c] = IF BarrierOpen(initialized_cpus)
                               THEN "check_error" ELSE "wait_error"]
    /\ UNCHANGED <<init_lock, master_cpu_id, initialized_cpus, error, percpu,
                   linux_cpu_set, sysconf, hist, vmxVars>>
    /\ UNCHANGED nonBootVars

\* if (error) { ... } : the branch a CPU takes after the loop.
BootAbortTestLocal(c) == percpu[c].err # 0

BootAbortTest(c) == error # 0

BootCheckError(c) ==
    /\ pc[c] = "check_error"
    /\ pc' = [pc EXCEPT ![c] = IF BootAbortTest(c) THEN "restore" ELSE "activate"]
    /\ UNCHANGED <<init_lock, master_cpu_id, initialized_cpus, error, percpu,
                   linux_cpu_set, sysconf, hist, vmxVars>>
    /\ UNCHANGED nonBootVars

\* arch_cpu_restore(cpu_data): leaves VMX operation through vmx_cpu_exit and
\* restores the Linux context of the CPU.
BootRestore(c) ==
    /\ pc[c] = "restore"
    /\ LET r == vmx_cpu_exit(vmx_state[c], cr4_vmxe[c]) IN
       SetVmxState(c, r.state, r.cr4)
    /\ percpu' = [percpu EXCEPT ![c].restored = @ + 1]
    /\ pc' = [pc EXCEPT ![c] = "return"]
    /\ UNCHANGED <<init_lock, master_cpu_id, initialized_cpus, error,
                   linux_cpu_set, sysconf, hist>>
    /\ UNCHANGED nonBootVars

\* return error;
BootReturn(c) ==
    /\ pc[c] = "return"
    /\ percpu' = [percpu EXCEPT ![c].retval = error]
    /\ pc' = [pc EXCEPT ![c] = "returned"]
    /\ UNCHANGED <<init_lock, master_cpu_id, initialized_cpus, error,
                   linux_cpu_set, sysconf, hist, vmxVars>>
    /\ UNCHANGED nonBootVars

\* arch_cpu_activate_vmm(cpu_data): VMLAUNCH enters the guest, or fails and
\* the CPU stops in panic_stop.
BootActivate(c) ==
    /\ pc[c] = "activate"
    /\ percpu' = [percpu EXCEPT ![c].activated = TRUE]
    /\ \E launched \in BOOLEAN :
          pc' = [pc EXCEPT ![c] = IF launched THEN "guest" ELSE "halted"]
    /\ UNCHANGED <<init_lock, master_cpu_id, initialized_cpus, error,
                   linux_cpu_set, sysconf, hist, vmxVars>>
    /\ UNCHANGED nonBootVars

\* ------------------------------------------------------------------------
\* VM-exit handling (vmx.c: vmx_handle_exit and the handlers it calls)
\* ------------------------------------------------------------------------

\* A 64-bit register or VMCS field is the set of its bit positions that are
\* 1, so that the C bit operators are set operations of the same width.
AllBits == 0 .. 63
Low32 == 0 .. 31

\* The bits of a small non-negative integer.
Bits(n) == {i \in 0 .. 30 : (n \div (2 ^ i)) % 2 = 1}

\* An int converted to unsigned long (sign extension, two's complement).
U64(n) == IF n >= 0 THEN Bits(n) ELSE AllBits \ Bits((-n) - 1)

RECURSIVE WordSum(_)
WordSum(w) ==
    IF w = {} THEN 0
    ELSE LET i == CHOOSE j \in w : TRUE IN (2 ^ i) + WordSum(w \ {i})

\* lo <= w && w <= hi for an unsigned word and two small bounds.
WordInRange(w, lo, hi) ==
    /\ w \subseteq 0 .. 30
    /\ WordSum(w) >= lo
    /\ WordSum(w) <= hi

\* Instruction lengths (asm/processor.h).
X86_INST_LEN_CPUID == 2
X86_INST_LEN_RDMSR == 2
X86_INST_LEN_WRMSR == 2
X86_INST_LEN_VMCALL == 3
X86_INST_LEN_MOV_TO_CR == 3
X86_INST_LEN_XSETBV == 3

\* Hypercall codes (jailhouse/hypercall.h).
JAILHOUSE_HC_DISABLE == 0
JAILHOUSE_HC_CELL_CREATE == 1
JAILHOUSE_HC_CELL_DESTROY == 2

\* x2APIC MSR range (asm/processor.h): 0x800, 0x830, 0x83f.
MSR_X2APIC_BASE == 2048
MSR_X2APIC_ICR == 2096
MSR_X2APIC_END == 2111

\* Architectural bit masks.
EFER_LME == {8}
EFER_LMA == {10}
X86_RFLAGS_VM == {17}
X86_CR0_PE == {0}
X86_CR0_ET == {4}
X86_CR0_NW == {29}
X86_CR0_CD == {30}
X86_CR0_PG == {31}
X86_CR4_VMXE == {13}
X86_XCR0_FP == {0}
PIN_BASED_VMX_PREEMPTION_TIMER == {6}
VM_ENTRY_IA32E_MODE == {9}

\* apic_handle_events() returns -1 without a SIPI, else the vector;
\* APIC_BSP_PSEUDO_SIPI (0x100) restarts the boot CPU at the reset vector.
APIC_BSP_PSEUDO_SIPI == 256

\* IA32_VMX_CR0_FIXED0/1 and IA32_VMX_CR4_FIXED0/1 of the processor:
\* CR0 must have PE, NE and PG set and may have any of its low 32 bits set,
\* CR4 must have VMXE set and may have bits 0..13 set.
MSR_IA32_VMX_CR0_FIXED0 == {0, 5, 31}
MSR_IA32_VMX_CR0_FIXED1 == Low32
MSR_IA32_VMX_CR4_FIXED0 == {13}
MSR_IA32_VMX_CR4_FIXED1 == 0 .. 13

\* XCR0 bits the processor supports: cpuid_eax(0x0d), a 32-bit value.
cpuid_eax_0d == {0, 1, 2}

\* Basic exit reasons vmx_handle_exit distinguishes; "EPT_VIOLATION" stands
\* for every reason the switch has no case for.
ExitReasons == {"EXCEPTION_NMI", "PREEMPTION_TIMER", "CPUID", "VMCALL",
                "CR_ACCESS", "MSR_READ", "MSR_WRITE", "APIC_ACCESS",
                "XSETBV", "EPT_VIOLATION"}

\* Low 16 bits of a reason that has the failed-entry bit set: the processor
\* reports invalid guest state; the handler does not rely on that, so a
\* reason the switch has a case for stands for the other values.
FailedEntryReasons == {"INVALID_STATE", "VMCALL"}

NoQual == [cr |-> 0, type |-> 0, reg |-> 0, apic_type |-> "none",
           offset_low |-> 0]

NoLog == [handler |-> "none", panic |-> "none", callee |-> "none",
          hc_ret |-> 0, nmi |-> FALSE, xsetbv |-> {}, reset |-> FALSE,
          sipi |-> -1, reset_ok |-> TRUE]

vmx_skip_emulated_instruction(v, inst_len) ==
    [v EXCEPT !.GUEST_RIP = @ + inst_len]

vmx_disable_preemption_timer(v) ==
    [v EXCEPT !.PIN_BASED_VM_EXEC_CONTROL = @ \ PIN_BASED_VMX_PREEMPTION_TIMER]

update_efer(v) ==
    IF v.GUEST_IA32_EFER \cap (EFER_LME \cup EFER_LMA) # EFER_LME
    THEN v
    ELSE [v EXCEPT !.GUEST_IA32_EFER = @ \cup EFER_LMA,
                   !.VM_ENTRY_CONTROLS = @ \cup VM_ENTRY_IA32E_MODE]

vmx_set_guest_cr(v, cr, value) ==
    LET fixed0 == IF cr # 0 THEN MSR_IA32_VMX_CR4_FIXED0
                            ELSE MSR_IA32_VMX_CR0_FIXED0
        fixed1raw == IF cr # 0 THEN MSR_IA32_VMX_CR4_FIXED1
                               ELSE MSR_IA32_VMX_CR0_FIXED1
        fixed1 == IF cr = 0 THEN fixed1raw \ (X86_CR0_NW \cup X86_CR0_CD)
                            ELSE fixed1raw
        required1 == IF cr = 0
                     THEN (((fixed0 \cap fixed1raw)
                              \ (X86_CR0_PE \cup X86_CR0_PG)) \cup X86_CR0_ET)
                     ELSE fixed0 \cap fixed1raw
        val == IF cr = 0 THEN value ELSE value \cup X86_CR4_VMXE
    IN  IF cr # 0
        THEN [v EXCEPT !.GUEST_CR4 = (val \cap fixed1) \cup required1,
                       !.CR4_READ_SHADOW = val,
                       !.CR4_GUEST_HOST_MASK = required1 \cup (AllBits \ fixed1)]
        ELSE [v EXCEPT !.GUEST_CR0 = (val \cap fixed1) \cup required1,
                       !.CR0_READ_SHADOW = val,
                       !.CR0_GUEST_HOST_MASK = required1 \cup (AllBits \ fixed1)]

\* ((unsigned long *)guest_regs)[15 - reg] for the registers kept here.
guest_reg_by_number(regs, reg) ==
    CASE reg = 0 -> regs.rax
      [] reg = 1 -> regs.rcx
      [] reg = 2 -> regs.rdx
      [] reg = 3 -> regs.rbx
      [] OTHER -> regs.rdi

\* dump_and_stop: dump_guest_regs() only prints, panic_stop() halts the CPU.
dump_and_stop(ctx, msg) ==
    [ctx EXCEPT !.next = "halted", !.log.panic = msg]

\* vmx_cpu_reset() without the replacement of the boot-processor pseudo
\* vector by the reset vector.
vmx_cpu_reset_plain_vector(ctx, sipi, ok) ==
    LET v0 == vmx_set_guest_cr(ctx.vmcs, 0,
                               X86_CR0_NW \cup X86_CR0_CD \cup X86_CR0_ET)
        v1 == vmx_set_guest_cr(v0, 4, {})
        v2 == [v1 EXCEPT
                 !.GUEST_CR3 = {},
                 !.GUEST_RFLAGS = {1},
                 !.GUEST_RSP = {},
                 !.GUEST_RIP = 0,
                 !.GUEST_CS_SELECTOR = Bits(sipi * 256) \cap (0 .. 15),
                 !.GUEST_CS_BASE = Bits(sipi * 4096),
                 !.GUEST_IA32_EFER = {},
                 !.GUEST_ACTIVITY_STATE = "ACTIVE",
                 !.VM_ENTRY_CONTROLS = @ \ VM_ENTRY_IA32E_MODE]
        c == [ctx EXCEPT !.vmcs = v2,
                         !.regs = [r \in DOMAIN ctx.regs |-> {}],
                         !.log.reset = TRUE,
                         !.log.reset_ok = ok]
    IN  IF ok THEN c ELSE [c EXCEPT !.next = "halted",
                                    !.log.panic = "CPU reset failed"]

\* vmx_cpu_reset().  The writes are modelled for the fields kept here; ok is
\* the conjunction of the VMWRITE results (log.reset_ok).
vmx_cpu_reset(ctx, sipi, ok) ==
    LET bsp == sipi = APIC_BSP_PSEUDO_SIPI
        sipi_vector == IF bsp THEN 240 ELSE sipi
        v0 == vmx_set_guest_cr(ctx.vmcs, 0,
                               X86_CR0_NW \cup X86_CR0_CD \cup X86_CR0_ET)
        v1 == vmx_set_guest_cr(v0, 4, {})
        v2 == [v1 EXCEPT
                 !.GUEST_CR3 = {},
                 !.GUEST_RFLAGS = {1},
                 !.GUEST_RSP = {},
                 !.GUEST_RIP = IF bsp THEN 65520 ELSE 0,
                 !.GUEST_CS_SELECTOR = Bits(sipi_vector * 256) \cap (0 .. 15),
                 !.GUEST_CS_BASE = Bits(sipi_vector * 4096),
                 !.GUEST_IA32_EFER = {},
                 !.GUEST_ACTIVITY_STATE = "ACTIVE",
                 !.VM_ENTRY_CONTROLS = @ \ VM_ENTRY_IA32E_MODE]
        c == [ctx EXCEPT !.vmcs = v2,
                         !.regs = [r \in DOMAIN ctx.regs |-> {}],
                         !.log.reset = TRUE,
                         !.log.reset_ok = ok]
    IN  IF ok THEN c ELSE [c EXCEPT !.next = "halted",
                                    !.log.panic = "CPU reset failed"]

\* The XSETBV test without the test of the register index.
xsetbv_permitted_any_index(regs) ==
    /\ regs.rax \cap X86_XCR0_FP # {}
    /\ regs.rax \cap (Low32 \ cpuid_eax_0d) = {}
    /\ regs.rdx = {}

\* The test of the XSETBV case.  cpuid_eax() returns an unsigned int, so its
\* complement is a 32-bit value that is zero-extended for the AND with rax:
\* bits 32..63 of rax are not tested.  XSETBV reads EAX, the low half of rax
\* (log.xsetbv is the value written to XCR0; {} when none was written).
xsetbv_permitted(regs) ==
    /\ regs.rax \cap X86_XCR0_FP # {}
    /\ regs.rax \cap (Low32 \ cpuid_eax_0d) = {}
    /\ regs.rcx = {}
    /\ regs.rdx = {}

\* The mode test of vmx_handle_hypercall() without the test of the RPL.
vmx_hypercall_denied_v86(v) ==
    /\ v.GUEST_IA32_EFER \cap EFER_LMA = {}
    /\ v.GUEST_RFLAGS \cap X86_RFLAGS_VM # {}

\* The mode test of vmx_handle_hypercall(): virtual-8086 mode outside long
\* mode, or a CS selector whose RPL is not 0.
vmx_hypercall_denied(v) ==
    \/ /\ v.GUEST_IA32_EFER \cap EFER_LMA = {}
       /\ v.GUEST_RFLAGS \cap X86_RFLAGS_VM # {}
    \/ v.GUEST_CS_SELECTOR \cap {0, 1} # {}

\* A DISABLE handler that returns to vm_exit after a successful shutdown().
vmx_cpu_stay_virtualized(c) == c

\* vmx_cpu_deactivate_vmm(): arch_cpu_restore(), then a return to GUEST_RIP
\* on the stack at GUEST_RSP with the saved registers and rax cleared.  The
\* function does not return; the exit from VMX operation is in HandleExit.
vmx_cpu_deactivate_vmm(c) ==
    [c EXCEPT !.next = "linux", !.regs.rax = {}]

\* vmx_handle_hypercall() with the value the default case stores in rax.
\* env.hc_ret is what shutdown(), cell_create() or cell_destroy() returns.
vmx_hypercall_with(ctx, env, unknown) ==
    LET v == vmx_skip_emulated_instruction(ctx.vmcs, X86_INST_LEN_VMCALL)
        c == [ctx EXCEPT !.vmcs = v]
        rax == ctx.regs.rax
    IN  IF vmx_hypercall_denied(v)
        THEN [c EXCEPT !.regs.rax = U64(-EPERM)]
        ELSE CASE rax = U64(JAILHOUSE_HC_DISABLE) ->
                    LET c1 == [c EXCEPT !.regs.rax = U64(env.hc_ret),
                                        !.log.callee = "shutdown",
                                        !.log.hc_ret = env.hc_ret]
                    IN  IF c1.regs.rax = {}
                        THEN vmx_cpu_deactivate_vmm(c1)
                        ELSE c1
               [] rax = U64(JAILHOUSE_HC_CELL_CREATE) ->
                    [c EXCEPT !.regs.rax = U64(env.hc_ret),
                              !.log.callee = "cell_create",
                              !.log.hc_ret = env.hc_ret]
               [] rax = U64(JAILHOUSE_HC_CELL_DESTROY) ->
                    [c EXCEPT !.regs.rax = U64(env.hc_ret),
                              !.log.callee = "cell_destroy",
                              !.log.hc_ret = env.hc_ret]
               [] OTHER -> [c EXCEPT !.regs.rax = unknown]

vmx_handle_hypercall_eperm(ctx, env) ==
    vmx_hypercall_with(ctx, env, U64(-EPERM))

vmx_handle_hypercall(ctx, env) ==
    vmx_hypercall_with(ctx, env, U64(-ENOSYS))

\* vmx_handle_cr(): the result has next = "halted" where the C returns false.
vmx_handle_cr(ctx, qual) ==
    LET val == IF qual.reg = 4 THEN ctx.vmcs.GUEST_RSP
               ELSE guest_reg_by_number(ctx.regs, qual.reg)
        v0 == vmx_skip_emulated_instruction(ctx.vmcs, X86_INST_LEN_MOV_TO_CR)
        v1 == vmx_set_guest_cr(v0, qual.cr, val)
        v2 == IF qual.cr = 0 /\ val \cap X86_CR0_PG # {}
              THEN update_efer(v1) ELSE v1
    IN  IF qual.type = 0 /\ qual.cr \in {0, 4}
        THEN [ctx EXCEPT !.vmcs = v2]
        ELSE dump_and_stop(ctx, "Unhandled CR access")

\* vmx_handle_apic_access(); apic_mmio_access() returns env.apic_len and, for
\* a read, has stored env.apic_val in the destination register (rax here).
vmx_handle_apic_access(ctx, qual, env) ==
    IF qual.apic_type \in {"LINEAR_READ", "LINEAR_WRITE"} /\ qual.offset_low = 0
    THEN LET r == IF qual.apic_type = "LINEAR_READ" /\ env.apic_len # 0
                  THEN [ctx.regs EXCEPT !.rax = env.apic_val] ELSE ctx.regs
         IN  IF env.apic_len = 0
             THEN [ctx EXCEPT !.next = "halted", !.log.panic = "apic_mmio_access"]
             ELSE [ctx EXCEPT
                     !.regs = r,
                     !.vmcs = vmx_skip_emulated_instruction(@, env.apic_len)]
    ELSE dump_and_stop(ctx, "Unhandled APIC access")

\* The switch of vmx_handle_exit() on a reason without the failed-entry bit.
\* env holds what the collaborators outside vmx.c return: apic_handle_events
\* (sipi), the VMWRITEs of a reset (vmwrite_ok), CPUID (cpuid), the x2APIC
\* model (msr_val), apic_mmio_access (apic_len, apic_val) and the cell
\* manager (hc_ret).
vmx_exit_switch(ctx, basic, qual, env) ==
    LET c == [ctx EXCEPT !.log.handler = basic] IN
    CASE basic \in {"EXCEPTION_NMI", "PREEMPTION_TIMER"} ->
           LET c1 == [c EXCEPT
                        !.log.nmi = (basic = "EXCEPTION_NMI"),
                        !.log.sipi = env.sipi,
                        !.vmcs = vmx_disable_preemption_timer(@)]
           IN  IF env.sipi >= 0
               THEN vmx_cpu_reset(c1, env.sipi, env.vmwrite_ok)
               ELSE c1
      [] basic = "CPUID" ->
           [c EXCEPT
              !.vmcs = vmx_skip_emulated_instruction(@, X86_INST_LEN_CPUID),
              !.regs.rax = env.cpuid.eax \cap Low32,
              !.regs.rbx = env.cpuid.ebx \cap Low32,
              !.regs.rcx = env.cpuid.ecx \cap Low32,
              !.regs.rdx = env.cpuid.edx \cap Low32]
      [] basic = "VMCALL" -> vmx_handle_hypercall(c, env)
      [] basic = "CR_ACCESS" -> vmx_handle_cr(c, qual)
      [] basic = "MSR_READ" ->
           LET c1 == [c EXCEPT !.vmcs =
                        vmx_skip_emulated_instruction(@, X86_INST_LEN_RDMSR)]
           IN  IF WordInRange(c.regs.rcx, MSR_X2APIC_BASE, MSR_X2APIC_END)
               THEN [c1 EXCEPT !.regs.rax = env.msr_val, !.regs.rdx = {},
                               !.log.callee = "x2apic_handle_read"]
               ELSE dump_and_stop(c1, "Unhandled MSR read")
      [] basic = "MSR_WRITE" ->
           LET c1 == [c EXCEPT !.vmcs =
                        vmx_skip_emulated_instruction(@, X86_INST_LEN_WRMSR)]
           IN  IF c.regs.rcx = U64(MSR_X2APIC_ICR)
               THEN [c1 EXCEPT !.log.callee = "apic_handle_icr_write"]
               ELSE IF WordInRange(c.regs.rcx, MSR_X2APIC_BASE, MSR_X2APIC_END)
               THEN [c1 EXCEPT !.log.callee = "x2apic_handle_write"]
               ELSE dump_and_stop(c1, "Unhandled MSR write")
      [] basic = "APIC_ACCESS" -> vmx_handle_apic_access(c, qual, env)
      [] basic = "XSETBV" ->
           LET c1 == [c EXCEPT !.vmcs =
                        vmx_skip_emulated_instruction(@, X86_INST_LEN_XSETBV)]
           IN  IF xsetbv_permitted(c.regs)
               THEN [c1 EXCEPT !.log.xsetbv = c.regs.rax \cap Low32]
               ELSE dump_and_stop(c1, "Invalid xsetbv parameters")
      [] OTHER -> dump_and_stop([c EXCEPT !.log.handler = "default"],
                                "Unhandled VM-Exit")

\* vmx_handle_exit() without the failed-entry test, switching on the low 16
\* bits of the reason.
vmx_handle_exit_u16(ctx, reason, qual, env) ==
    vmx_exit_switch(ctx, reason.basic, qual, env)

vmx_handle_exit(ctx, reason, qual, env) ==
    IF reason.failed
    THEN dump_and_stop(ctx, "VM-Entry failure")
    ELSE vmx_exit_switch(ctx, reason.basic, qual, env)

\* The CPU whose VM exits are followed.
XCpu == 0

\* The VMCS after vmcs_setup() on a 64-bit Linux: CR0 and CR4 as Linux had
\* them, EFER.LME and LMA, entry controls with IA-32e mode and the EFER load,
\* pin-based controls with NMI exiting only.  After the entry controls
\* vmcs_setup() writes 0 to CR4_GUEST_HOST_MASK.
VmcsAfterSetup ==
    LET blank == [GUEST_RIP |-> 4096, GUEST_RSP |-> {12}, GUEST_RFLAGS |-> {1},
                  GUEST_IA32_EFER |-> EFER_LME \cup EFER_LMA,
                  GUEST_CS_SELECTOR |-> U64(16), GUEST_CS_BASE |-> {},
                  GUEST_CR0 |-> {}, GUEST_CR3 |-> {13}, GUEST_CR4 |-> {},
                  CR0_READ_SHADOW |-> {}, CR4_READ_SHADOW |-> {},
                  CR0_GUEST_HOST_MASK |-> {}, CR4_GUEST_HOST_MASK |-> {},
                  PIN_BASED_VM_EXEC_CONTROL |-> {3},
                  VM_ENTRY_CONTROLS |-> VM_ENTRY_IA32E_MODE \cup {15},
                  GUEST_ACTIVITY_STATE |-> "ACTIVE"]
    IN  [vmx_set_guest_cr(vmx_set_guest_cr(blank, 0, {0, 4, 5, 16, 31}),
                          4, {5, 13})
           EXCEPT !.CR4_GUEST_HOST_MASK = {}]

RegsAtEntry == [rax |-> {}, rbx |-> {2}, rcx |-> {}, rdx |-> {}, rdi |-> {9}]

\* What a guest may have in its registers and mode when it exits.
GuestRax == {U64(JAILHOUSE_HC_DISABLE), U64(JAILHOUSE_HC_CELL_CREATE),
             U64(JAILHOUSE_HC_CELL_DESTROY), U64(3), X86_CR0_PE \cup X86_CR0_PG,
             X86_XCR0_FP \cup {40}}
GuestRcxRdx == {<<{}, {}>>, <<U64(MSR_X2APIC_ICR), {}>>,
                <<U64(MSR_X2APIC_BASE), {}>>, <<{}, {0}>>}

\* Long mode at ring 0 and at ring 3, virtual-8086 mode, and protected
\* mode with EFER.LME set before paging is enabled.
GuestModes ==
    {[efer |-> EFER_LME \cup EFER_LMA, rflags |-> {1}, cs |-> U64(16)],
     [efer |-> EFER_LME \cup EFER_LMA, rflags |-> {1}, cs |-> U64(35)],
     [efer |-> {}, rflags |-> {1} \cup X86_RFLAGS_VM, cs |-> U64(16)],
     [efer |-> EFER_LME, rflags |-> {1}, cs |-> U64(16)]}

\* Exit qualifications of a control-register and of an APIC-access exit.
CrQuals ==
    {[NoQual EXCEPT !.cr = q[1], !.type = q[2], !.reg = q[3]] :
        q \in {<<0, 0, 0>>, <<4, 0, 4>>, <<3, 0, 0>>, <<0, 1, 0>>}}

ApicQuals ==
    {[NoQual EXCEPT !.apic_type = q[1], !.offset_low = q[2]] :
        q \in {<<"LINEAR_READ", 0>>, <<"LINEAR_WRITE", 0>>,
               <<"LINEAR_READ", 4>>, <<"PHYSICAL", 0>>}}

ExitQuals(basic) ==
    CASE basic = "CR_ACCESS" -> CrQuals
      [] basic = "APIC_ACCESS" -> ApicQuals
      [] OTHER -> {NoQual}

NoEnv == [hc_ret |-> 0, sipi |-> -1, vmwrite_ok |-> TRUE,
          cpuid |-> [eax |-> {}, ebx |-> {}, ecx |-> {}, edx |-> {}],
          msr_val |-> {}, apic_len |-> 0, apic_val |-> {}]

\* Startup vectors apic_handle_events() may report: a low and the highest
\* 8-bit vector, and the pseudo vector of the boot processor.
SipiVectors == {16, 255, APIC_BSP_PSEUDO_SIPI}

\* The outcomes of the collaborators a handler of this reason calls.
ExitEnvs(basic) ==
    CASE basic \in {"EXCEPTION_NMI", "PREEMPTION_TIMER"} ->
           {NoEnv} \cup {[NoEnv EXCEPT !.sipi = s, !.vmwrite_ok = k] :
                           s \in SipiVectors, k \in BOOLEAN}
      [] basic = "CPUID" ->
           {[NoEnv EXCEPT !.cpuid = [eax |-> {0, 2}, ebx |-> {1}, ecx |-> {5},
                                     edx |-> {}]]}
      [] basic = "VMCALL" -> {[NoEnv EXCEPT !.hc_ret = r] : r \in {0, -EINVAL}}
      [] basic = "MSR_READ" -> {[NoEnv EXCEPT !.msr_val = {0, 3}]}
      [] basic = "APIC_ACCESS" ->
           {[NoEnv EXCEPT !.apic_len = n, !.apic_val = {1}] : n \in {0, 3}}
      [] OTHER -> {NoEnv}

\* While the guest runs, its registers and the guest-state fields it owns
\* are its own; they are drawn afresh at its next exit and kept at one value
\* in between.
GuestOwned(v) ==
    [v EXCEPT !.GUEST_RIP = 4096,
              !.GUEST_RSP = {12},
              !.GUEST_CR3 = {13},
              !.GUEST_CS_BASE = {},
              !.GUEST_IA32_EFER = EFER_LME \cup EFER_LMA,
              !.GUEST_RFLAGS = {1},
              !.GUEST_CS_SELECTOR = U64(16)]

\* The guest traps: the processor stores the exit reason and qualification,
\* vm_exit (entry.S) saves the general-purpose registers.  A move to CR4
\* traps only for a bit of CR4_GUEST_HOST_MASK.
VmExit ==
    /\ xpc = "guest"
    /\ \E basic \in ExitReasons : \E q \in ExitQuals(basic) :
       \E a \in GuestRax : \E cd \in GuestRcxRdx : \E m \in GuestModes :
          /\ (basic = "CR_ACCESS" /\ q.type = 0 /\ q.cr = 4)
                => vmcs.CR4_GUEST_HOST_MASK # {}
          /\ LET r == [RegsAtEntry EXCEPT !.rax = a, !.rcx = cd[1],
                                          !.rdx = cd[2]]
                 v == [GuestOwned(vmcs) EXCEPT
                                !.GUEST_IA32_EFER = m.efer,
                                !.GUEST_RFLAGS = m.rflags,
                                !.GUEST_CS_SELECTOR = m.cs]
             IN  /\ exit_reason' = [failed |-> FALSE, basic |-> basic]
                 /\ exit_qual' = q
                 /\ guest_regs' = r
                 /\ vmcs' = v
                 /\ snap' = [regs |-> r, vmcs |-> v]
    /\ xlog' = NoLog
    /\ xpc' = "exit"
    /\ UNCHANGED <<bootVars, lifeVars, vmxVars, cellVars>>

\* vm_exit calls vmx_handle_exit(); it returns to vm_exit (resume), stops
\* the CPU in panic_stop, or leaves VMX through vmx_cpu_deactivate_vmm.
HandleExit ==
    /\ xpc = "exit"
    /\ \E env \in ExitEnvs(exit_reason.basic) :
          LET r == vmx_handle_exit([regs |-> guest_regs, vmcs |-> vmcs,
                                    log |-> xlog, next |-> "resume"],
                                   exit_reason, exit_qual, env)
              off == vmx_cpu_exit(vmx_state[XCpu], cr4_vmxe[XCpu])
          IN  /\ guest_regs' = r.regs
              /\ vmcs' = r.vmcs
              /\ xlog' = r.log
              /\ xpc' = r.next
              /\ IF r.next = "linux"
                 THEN SetVmxState(XCpu, off.state, off.cr4)
                 ELSE UNCHANGED vmxVars
    /\ UNCHANGED <<bootVars, lifeVars, exit_reason, exit_qual, snap, cellVars>>

\* vm_exit restores the registers and executes VMRESUME: the guest runs,
\* or the entry fails after the guest state was loaded and the processor
\* exits at once with the failed-entry bit set, or VMRESUME itself fails and
\* vmx_entry_failure() stops the CPU.
VmResume ==
    /\ xpc = "resume"
    /\ \/ /\ xpc' = "guest"
          /\ exit_reason' = [failed |-> FALSE, basic |-> "none"]
          /\ exit_qual' = NoQual
          /\ guest_regs' = RegsAtEntry
          /\ vmcs' = GuestOwned(vmcs)
          /\ xlog' = NoLog
          /\ snap' = [regs |-> guest_regs', vmcs |-> vmcs']
       \/ /\ \E basic \in FailedEntryReasons :
                exit_reason' = [failed |-> TRUE, basic |-> basic]
          /\ exit_qual' = NoQual
          /\ snap' = [regs |-> guest_regs, vmcs |-> vmcs]
          /\ xlog' = NoLog
          /\ xpc' = "exit"
          /\ UNCHANGED <<guest_regs, vmcs>>
       \/ /\ xpc' = "halted"
          /\ xlog' = [xlog EXCEPT !.panic = "vmresume failed"]
          /\ UNCHANGED <<exit_reason, exit_qual, snap, guest_regs, vmcs>>
    /\ UNCHANGED <<bootVars, lifeVars, vmxVars, cellVars>>

\* The test of vmx_schedule_vmexit() as it was meant.
vmx_schedule_vmexit_returns_unless_ready(state) == state # VMCS_READY

\* The test of vmx_schedule_vmexit(): "!cpu_data->vmx_state == VMCS_READY"
\* compares !vmx_state, 0 or 1, with VMCS_READY, the third enumerator (2).
vmx_schedule_vmexit_returns(state) ==
    LET not_state == IF state = VMXOFF THEN 1 ELSE 0 IN
    not_state = 2

\* The VMCS accesses vmx_schedule_vmexit() executes.
vmx_schedule_vmexit_accesses(state) ==
    IF vmx_schedule_vmexit_returns(state)
    THEN <<>>
    ELSE <<"vmcs_read32", "vmcs_write32">>

\* vmx_schedule_vmexit() on a CPU whose VMCS is current.
vmx_schedule_vmexit(state, v) ==
    IF vmx_schedule_vmexit_returns(state)
    THEN v
    ELSE [v EXCEPT !.PIN_BASED_VM_EXEC_CONTROL =
                      @ \cup PIN_BASED_VMX_PREEMPTION_TIMER]

ScheduleVmexit ==
    /\ xpc = "guest"
    /\ vmcs' = vmx_schedule_vmexit(vmx_state[XCpu], vmcs)
    /\ UNCHANGED <<bootVars, lifeVars, vmxVars, xpc, exit_reason, exit_qual, guest_regs,
                   xlog, snap, cellVars>>

\* The variables of VM-exit handling while no guest runs.
ParkedExit ==
    /\ xpc = "linux"
    /\ exit_reason = [failed |-> FALSE, basic |-> "none"]
    /\ exit_qual = NoQual
    /\ guest_regs = RegsAtEntry
    /\ vmcs = VmcsAfterSetup
    /\ xlog = NoLog
    /\ snap = [regs |-> RegsAtEntry, vmcs |-> VmcsAfterSetup]

\* ------------------------------------------------------------------------
\* Cells: the EPT manager (vmx.c) and the VT-d manager (vtd.c)
\* ------------------------------------------------------------------------

\* Pages of system memory; a guest-physical page number is a page of system
\* memory or XAPIC_BASE, the page above them.
SysPages == 0 .. (NumPages - 1)
XAPIC_BASE == NumPages
GuestPages == 0 .. NumPages

\* The hypervisor's apic_access_page, a physical page outside system memory.
ApicAccessPage == NumPages + 1

\* Cells: linux_cell (the root cell) has id 0, a created cell the lowest
\* free id above it.
LinuxCellId == 0
CellIds == 0 .. MaxCells
NewCellIds == 1 .. MaxCells

\* The pages of mem_pool, I/O ports, PCI buses and device functions.
PoolPages == 0 .. (PoolSize - 1)
NoPage == -1
Ports == 0 .. (NumPorts - 1)
Buses == {0, 1, 2}
Devfns == {0, 1}

\* dmar_num_did after vtd_init(): the smallest domain-id count a unit
\* reports, 1 << (4 + 2 * 0).
dmar_num_did == 16

NoMap == [present |-> FALSE, phys |-> 0, flags |-> {}]
NoTable == [g \in GuestPages |-> NoMap]
NoContext == [present |-> FALSE, ptr |-> NoPage, did |-> 0]
NoContextTable == [f \in Devfns |-> NoContext]

\* system_config->system: every page of system memory identity-mapped with
\* all rights and DMA, three PCI devices (two on bus 0, one on bus 1), and
\* a port bitmap that covers every port and blocks the last one.
SystemConfig ==
    [mem |-> [n \in 1 .. NumPages |->
                 [phys |-> n - 1, virt |-> n - 1,
                  flags |-> {"R", "W", "X", "DMA"}]],
     devices |-> <<[bus |-> 0, devfn |-> 0], [bus |-> 0, devfn |-> 1],
                   [bus |-> 1, devfn |-> 0]>>,
     pio_size |-> NumPorts,
     pio_blocked |-> {NumPorts - 1}]

\* Configurations a cell is created from: one read+write page and nothing
\* else (at guest page 0, and at XAPIC_BASE); a DMA page, one of the two
\* devices of bus 0 and port 0; a DMA page, the only device of bus 1 and a
\* port bitmap as long as the system's that allows port 0.
CellConfigs ==
    {[mem |-> <<[phys |-> 1, virt |-> 0, flags |-> {"R", "W"}]>>,
      devices |-> <<>>, pio_size |-> 0, pio_blocked |-> {}],
     [mem |-> <<[phys |-> 1, virt |-> XAPIC_BASE, flags |-> {"R", "W"}]>>,
      devices |-> <<>>, pio_size |-> 0, pio_blocked |-> {}],
     [mem |-> <<[phys |-> 0, virt |-> 0, flags |-> {"R", "X", "DMA"}]>>,
      devices |-> <<[bus |-> 0, devfn |-> 0]>>,
      pio_size |-> 1, pio_blocked |-> {}],
     [mem |-> <<[phys |-> 1, virt |-> 1, flags |-> {"R", "W", "DMA"}]>>,
      devices |-> <<[bus |-> 1, devfn |-> 0]>>,
      pio_size |-> NumPorts, pio_blocked |-> Ports \ {0}]}

\* page_alloc(&mem_pool, 1): the lowest free page, zero-filled, or NULL.
page_alloc(used) ==
    IF PoolPages \ used = {} THEN NoPage
    ELSE CHOOSE p \in PoolPages \ used : \A q \in PoolPages \ used : p <= q

\* The state of the two managers as one record, so that the functions
\* below are functions from state to state.
CellState ==
    [cells |-> cells, ept |-> ept, ept_root |-> ept_root,
     io_bitmap |-> io_bitmap, ept_stale |-> ept_stale, vtd_pt |-> vtd_pt,
     vtd_root |-> vtd_root, root_entry_table |-> root_entry_table,
     pool_used |-> pool_used, page_kind |-> page_kind, ctx_tab |-> ctx_tab,
     vtd_tes |-> vtd_tes, flush_log |-> flush_log, halted |-> halted,
     wild |-> wild, root_remap |-> root_remap]

SetCellState(s) ==
    /\ cells' = s.cells
    /\ ept' = s.ept
    /\ ept_root' = s.ept_root
    /\ io_bitmap' = s.io_bitmap
    /\ ept_stale' = s.ept_stale
    /\ vtd_pt' = s.vtd_pt
    /\ vtd_root' = s.vtd_root
    /\ root_entry_table' = s.root_entry_table
    /\ pool_used' = s.pool_used
    /\ page_kind' = s.page_kind
    /\ ctx_tab' = s.ctx_tab
    /\ vtd_tes' = s.vtd_tes
    /\ flush_log' = s.flush_log
    /\ halted' = s.halted
    /\ wild' = s.wild
    /\ root_remap' = s.root_remap

\* page_map_create() and page_map_destroy() for one page (paging.c): the
\* table maps guest page virt to phys with the given rights, or to nothing.
page_map_create(table, phys, virt, flags) ==
    [table EXCEPT ![virt] = [present |-> TRUE, phys |-> phys, flags |-> flags]]

page_map_destroy(table, virt) ==
    [table EXCEPT ![virt] = NoMap]

\* page_free(&mem_pool, page, 1): the page keeps its content.
page_free(s, p) == [s EXCEPT !.pool_used = @ \ {p}]

\* page_flags with the third test on JAILHOUSE_MEM_READ instead of
\* JAILHOUSE_MEM_EXECUTE.
ept_page_flags_exec_on_read(access_flags) ==
    {"WB"} \cup (IF "R" \in access_flags THEN {"R"} ELSE {})
           \cup (IF "W" \in access_flags THEN {"W"} ELSE {})
           \cup (IF "R" \in access_flags THEN {"X"} ELSE {})

\* page_flags of vmx_map_memory_region(): EPT_FLAG_WB_TYPE, and
\* EPT_FLAG_READ, EPT_FLAG_WRITE, EPT_FLAG_EXECUTE for JAILHOUSE_MEM_READ,
\* JAILHOUSE_MEM_WRITE, JAILHOUSE_MEM_EXECUTE in mem->access_flags.
ept_page_flags(access_flags) ==
    {"WB"} \cup (IF "R" \in access_flags THEN {"R"} ELSE {})
           \cup (IF "W" \in access_flags THEN {"W"} ELSE {})
           \cup (IF "X" \in access_flags THEN {"X"} ELSE {})

\* vmx_map_memory_region() that grants every right whatever the flags say.
vmx_map_memory_region_all(s, c, mem) ==
    [s EXCEPT !.ept[c] = page_map_create(@, mem.phys, mem.virt,
                                         {"WB", "R", "W", "X"}),
              !.ept_stale = TRUE]

\* vmx_map_memory_region(), page_map_create() succeeding.
vmx_map_memory_region(s, c, mem) ==
    [s EXCEPT !.ept[c] = page_map_create(@, mem.phys, mem.virt,
                                         ept_page_flags(mem.flags)),
              !.ept_stale = TRUE]

vmx_unmap_memory_region(s, c, mem) ==
    [s EXCEPT !.ept[c] = page_map_destroy(@, mem.virt),
              !.ept_stale = TRUE]

\* The loop of vmx_cell_init() over the regions from the n-th on; the
\* page_map_create() of region fail_at fails.
RECURSIVE vmx_map_regions(_, _, _, _, _)
vmx_map_regions(s, c, mems, n, fail_at) ==
    IF n > Len(mems) THEN [s |-> s, err |-> 0]
    ELSE IF n = fail_at THEN [s |-> s, err |-> -ENOMEM]
    ELSE vmx_map_regions(vmx_map_memory_region(s, c, mems[n]), c, mems,
                         n + 1, fail_at)

\* vmx_cell_init(); fail_at = Len(mem) + 1 fails the mapping of the APIC
\* access page, fail_at = 0 fails nothing.
vmx_cell_init(s, c, fail_at) ==
    LET config == s.cells[c].config
        p == page_alloc(s.pool_used)
        s1 == [s EXCEPT !.ept_root[c] = p,
                        !.pool_used = @ \cup {p},
                        !.page_kind[p] = "ept",
                        !.ept[c] = NoTable]
        r == vmx_map_regions(s1, c, config.mem, 1, fail_at)
        s2 == [r.s EXCEPT !.ept[c] = page_map_create(@, ApicAccessPage,
                                                     XAPIC_BASE,
                                                     {"WB", "R", "W"})]
        s3 == [s2 EXCEPT !.io_bitmap[c] =
                 (Ports \ (0 .. (config.pio_size - 1))) \cup config.pio_blocked]
    IN  IF p = NoPage THEN [s |-> s, err |-> -ENOMEM]
        ELSE IF r.err # 0 THEN r
        ELSE IF fail_at = Len(config.mem) + 1 THEN [s |-> r.s, err |-> -ENOMEM]
        ELSE [s |-> s3, err |-> 0]

\* vmx_invept(): the processor drops the cached translations, or the
\* instruction fails and panic_stop() halts.
vmx_invept(s, ok) ==
    IF ok THEN [s EXCEPT !.ept_stale = FALSE] ELSE [s EXCEPT !.halted = TRUE]

RECURSIVE linux_ept_destroy(_, _, _)
linux_ept_destroy(s, mems, n) ==
    IF n > Len(mems) THEN s
    ELSE linux_ept_destroy(
            [s EXCEPT !.ept[LinuxCellId] = page_map_destroy(@, mems[n].phys),
                      !.ept_stale = TRUE,
                      !.root_remap = @ \ {mems[n].phys}],
            mems, n + 1)

\* vmx_linux_cell_shrink() that leaves the root cell's EPT alone.
vmx_linux_cell_shrink_ports(s, config, invept_ok) ==
    LET s2 == [s EXCEPT !.io_bitmap[LinuxCellId] =
                 @ \cup ((0 .. (config.pio_size - 1)) \ config.pio_blocked)]
    IN  vmx_invept(s2, invept_ok)

vmx_linux_cell_shrink(s, config, invept_ok) ==
    LET s1 == linux_ept_destroy(s, config.mem, 1)
        s2 == [s1 EXCEPT !.io_bitmap[LinuxCellId] =
                 @ \cup ((0 .. (config.pio_size - 1)) \ config.pio_blocked)]
    IN  vmx_invept(s2, invept_ok)

\* vmx_cell_exit() that gives no port back to the root cell.
vmx_cell_exit_ports_kept(s, c) ==
    page_free([s EXCEPT !.ept[c] = page_map_destroy(@, XAPIC_BASE),
                        !.ept_stale = TRUE],
              s.ept_root[c])

vmx_cell_exit(s, c) ==
    LET config == s.cells[c].config
        linux_config == s.cells[LinuxCellId].config
        size == IF linux_config.pio_size < config.pio_size
                THEN linux_config.pio_size ELSE config.pio_size
        s1 == [s EXCEPT !.ept[c] = page_map_destroy(@, XAPIC_BASE),
                        !.ept_stale = TRUE]
        s2 == [s1 EXCEPT !.io_bitmap[LinuxCellId] =
                 {b \in @ : \/ b >= size
                            \/ b \in config.pio_blocked
                            \/ b \in linux_config.pio_blocked}]
    IN  page_free(s2, s.ept_root[c])

\* Scope of a flush that is not limited to one domain.
GlobalScope == -1

\* vtd_flush_domain_caches() that reaches no DMAR unit.
vtd_flush_no_unit(s, did) == s

\* vtd_flush_domain_caches(): one context-cache and IOTLB invalidation of
\* the domain on each DMAR unit.
vtd_flush_domain_caches(s, did) ==
    [s EXCEPT !.flush_log = @ \o [n \in 1 .. dmar_units |-> <<n - 1, did>>]]

\* vtd_add_device_to_cell(): ok is FALSE if no context table could be
\* allocated.
vtd_add_device_to_cell(s, c, device) ==
    LET re == s.root_entry_table[device.bus]
        p == page_alloc(s.pool_used)
        s1 == IF re.present THEN s
              ELSE [s EXCEPT
                      !.pool_used = @ \cup {p},
                      !.page_kind[p] = "ctx",
                      !.ctx_tab[p] = NoContextTable,
                      !.root_entry_table[device.bus] =
                          [present |-> TRUE, page |-> p]]
        table == IF re.present THEN re.page ELSE p
    IN  IF ~re.present /\ p = NoPage
        THEN [s |-> s, ok |-> FALSE]
        ELSE [s |-> [s1 EXCEPT !.ctx_tab[table][device.devfn] =
                        [present |-> TRUE, ptr |-> s.vtd_root[c], did |-> c]],
              ok |-> TRUE]

\* vtd_remove_device_from_cell() that releases the context table without
\* looking for other present entries.
vtd_remove_device_no_scan(s, device, garbage) ==
    LET re == s.root_entry_table[device.bus]
        s1 == [s EXCEPT !.ctx_tab[re.page][device.devfn] = NoContext,
                        !.root_entry_table[device.bus].present = FALSE]
    IN  IF s.wild \/ ~re.present
           \/ ~s.ctx_tab[re.page][device.devfn].present THEN s
        ELSE page_free(s1, re.page)

\* vtd_remove_device_from_cell().  The root entry is not tested: when it is
\* not present, the entry is read from the page its stale address names, or
\* from address 0 if the bus never had a table.  If that page holds a
\* context table the stale entry is read; otherwise the bit read is
\* garbage.  A PRESENT bit found this way makes the function write to and
\* free memory it does not own: the state is wild from then on.
\* Clearing PRESENT leaves the other bits of the entry in place; neither
\* the code nor the hardware reads them before vtd_add_device_to_cell()
\* overwrites the entry, and the cleared entry is kept as NoContext.
vtd_remove_device_from_cell(s, device, garbage) ==
    LET re == s.root_entry_table[device.bus]
        entry == s.ctx_tab[re.page][device.devfn]
        s1 == [s EXCEPT !.ctx_tab[re.page][device.devfn] = NoContext]
        s2 == [s1 EXCEPT !.root_entry_table[device.bus].present = FALSE]
        seen == IF re.page # NoPage /\ s.page_kind[re.page] = "ctx"
                THEN entry.present ELSE garbage
    IN  IF s.wild THEN s
        ELSE IF ~re.present
        THEN IF seen THEN [s EXCEPT !.wild = TRUE] ELSE s
        ELSE IF ~entry.present THEN s
        ELSE IF \E f \in Devfns : s1.ctx_tab[re.page][f].present THEN s1
        ELSE page_free(s2, re.page)

\* page_flags of vtd_map_memory_region(): VTD_PAGE_READ and VTD_PAGE_WRITE
\* for JAILHOUSE_MEM_READ and JAILHOUSE_MEM_WRITE in mem->access_flags.
vtd_page_flags(access_flags) ==
    (IF "R" \in access_flags THEN {"R"} ELSE {})
       \cup (IF "W" \in access_flags THEN {"W"} ELSE {})

\* vtd_map_memory_region() without the test of JAILHOUSE_MEM_DMA.
vtd_map_memory_region_any(s, c, mem) ==
    IF dmar_units = 0 THEN s
    ELSE [s EXCEPT !.vtd_pt[c] = page_map_create(@, mem.phys, mem.virt,
                                                 vtd_page_flags(mem.flags))]

\* vtd_map_memory_region(), page_map_create() succeeding.
vtd_map_memory_region(s, c, mem) ==
    IF dmar_units = 0 \/ "DMA" \notin mem.flags THEN s
    ELSE [s EXCEPT !.vtd_pt[c] = page_map_create(@, mem.phys, mem.virt,
                                                 vtd_page_flags(mem.flags))]

\* vtd_unmap_memory_region().
vtd_unmap_memory_region(s, c, mem) ==
    IF dmar_units = 0 \/ "DMA" \notin mem.flags THEN s
    ELSE [s EXCEPT !.vtd_pt[c] = page_map_destroy(@, mem.virt)]

RECURSIVE vtd_map_regions(_, _, _, _, _)
vtd_map_regions(s, c, mems, n, fail_at) ==
    IF n > Len(mems) THEN [s |-> s, err |-> 0]
    ELSE IF n = fail_at /\ "DMA" \in mems[n].flags
    THEN [s |-> s, err |-> -ENOMEM]
    ELSE vtd_map_regions(vtd_map_memory_region(s, c, mems[n]), c, mems,
                         n + 1, fail_at)

RECURSIVE vtd_add_devices(_, _, _, _)
vtd_add_devices(s, c, devs, n) ==
    IF n > Len(devs) THEN [s |-> s, err |-> 0]
    ELSE LET r == vtd_add_device_to_cell(s, c, devs[n])
         IN  IF ~r.ok THEN [s |-> r.s, err |-> -ENOMEM]
             ELSE vtd_add_devices(r.s, c, devs, n + 1)

\* The first vtd_cell_init() sets the root table address on every unit,
\* flushes globally and enables translation.
vtd_enable(s) ==
    IF s.vtd_tes THEN s
    ELSE [s EXCEPT !.vtd_tes = TRUE,
                   !.flush_log = @ \o [n \in 1 .. dmar_units |->
                                          <<n - 1, GlobalScope>>]]

\* vtd_cell_init() that registers no device.
vtd_cell_init_no_devices(s, c, fail_at) ==
    LET p == page_alloc(s.pool_used)
        s1 == [s EXCEPT !.vtd_root[c] = p,
                        !.pool_used = @ \cup {p},
                        !.page_kind[p] = "vtd",
                        !.vtd_pt[c] = NoTable]
        r == vtd_map_regions(s1, c, s.cells[c].config.mem, 1, fail_at)
    IN  IF dmar_units = 0 THEN [s |-> s, err |-> 0]
        ELSE IF c >= dmar_num_did THEN [s |-> s, err |-> -ERANGE]
        ELSE IF p = NoPage THEN [s |-> s, err |-> -ENOMEM]
        ELSE IF r.err # 0 THEN r
        ELSE [s |-> vtd_enable(r.s), err |-> 0]

vtd_cell_init(s, c, fail_at) ==
    LET p == page_alloc(s.pool_used)
        s1 == [s EXCEPT !.vtd_root[c] = p,
                        !.pool_used = @ \cup {p},
                        !.page_kind[p] = "vtd",
                        !.vtd_pt[c] = NoTable]
        r == vtd_map_regions(s1, c, s.cells[c].config.mem, 1, fail_at)
        a == vtd_add_devices(r.s, c, s.cells[c].config.devices, 1)
    IN  IF dmar_units = 0 THEN [s |-> s, err |-> 0]
        ELSE IF c >= dmar_num_did THEN [s |-> s, err |-> -ERANGE]
        ELSE IF p = NoPage THEN [s |-> s, err |-> -ENOMEM]
        ELSE IF r.err # 0 THEN r
        ELSE IF a.err # 0 THEN a
        ELSE [s |-> vtd_enable(a.s), err |-> 0]

\* The first loop of vtd_linux_cell_shrink(): without a page table of the
\* root cell (no DMAR unit) page_map_destroy() walks a null table.
RECURSIVE linux_vtd_destroy(_, _, _)
linux_vtd_destroy(s, mems, n) ==
    IF n > Len(mems) THEN s
    ELSE IF "DMA" \notin mems[n].flags THEN linux_vtd_destroy(s, mems, n + 1)
    ELSE IF s.vtd_root[LinuxCellId] = NoPage THEN [s EXCEPT !.wild = TRUE]
    ELSE linux_vtd_destroy(
            [s EXCEPT !.vtd_pt[LinuxCellId] = page_map_destroy(@, mems[n].phys)],
            mems, n + 1)

RECURSIVE vtd_remove_devices(_, _, _, _)
vtd_remove_devices(s, devs, n, garbage) ==
    IF n > Len(devs) THEN s
    ELSE vtd_remove_devices(vtd_remove_device_from_cell(s, devs[n], garbage),
                            devs, n + 1, garbage)

vtd_linux_cell_shrink(s, config, garbage) ==
    LET s1 == linux_vtd_destroy(s, config.mem, 1)
        s2 == vtd_remove_devices(s1, config.devices, 1, garbage)
    IN  IF s2.wild THEN s2 ELSE vtd_flush_domain_caches(s2, LinuxCellId)

\* vtd_return_device_to_linux() that never gives a device back.
vtd_keep_device(s, dev) == [s |-> s, ok |-> TRUE]

vtd_return_device_to_linux(s, dev) ==
    LET linux_dev == s.cells[LinuxCellId].config.devices IN
    IF \E n \in 1 .. Len(linux_dev) : linux_dev[n] = dev
    THEN vtd_add_device_to_cell(s, LinuxCellId, dev)
    ELSE [s |-> s, ok |-> TRUE]

RECURSIVE vtd_exit_devices(_, _, _, _)
vtd_exit_devices(s, devs, n, garbage) ==
    IF n > Len(devs) THEN s
    ELSE LET s1 == vtd_remove_device_from_cell(s, devs[n], garbage)
         IN  IF s1.wild THEN s1
             ELSE vtd_exit_devices(vtd_return_device_to_linux(s1, devs[n]).s,
                                   devs, n + 1, garbage)

\* vtd_cell_exit(); without a page table of the cell (no DMAR unit) the
\* final page_free() is given a pointer that was never allocated.
vtd_cell_exit(s, c, garbage) ==
    LET s1 == vtd_exit_devices(s, s.cells[c].config.devices, 1, garbage)
        s2 == vtd_flush_domain_caches(vtd_flush_domain_caches(s1, c),
                                      LinuxCellId)
    IN  IF s1.wild THEN s1
        ELSE IF s.vtd_root[c] = NoPage THEN [s2 EXCEPT !.wild = TRUE]
        ELSE page_free(s2, s.vtd_root[c])

EmptyConfig == [mem |-> <<>>, devices |-> <<>>, pio_size |-> 0,
                pio_blocked |-> {}]
NoCell == [state |-> "none", config |-> EmptyConfig]
NoOp == [step |-> "idle", cell |-> LinuxCellId]

\* Nothing allocated, no cell: the managers before the root cell is set up.
BlankCells ==
    [cells |-> [c \in CellIds |-> NoCell],
     ept |-> [c \in CellIds |-> NoTable],
     ept_root |-> [c \in CellIds |-> NoPage],
     io_bitmap |-> [c \in CellIds |-> Ports],
     ept_stale |-> FALSE,
     vtd_pt |-> [c \in CellIds |-> NoTable],
     vtd_root |-> [c \in CellIds |-> NoPage],
     root_entry_table |-> [b \in Buses |-> [present |-> FALSE, page |-> NoPage]],
     pool_used |-> {},
     page_kind |-> [p \in PoolPages |-> "none"],
     ctx_tab |-> [p \in PoolPages |-> NoContextTable],
     vtd_tes |-> FALSE, flush_log |-> <<>>, halted |-> FALSE,
     wild |-> FALSE, root_remap |-> {}]

StateIs(s) ==
    /\ cells = s.cells
    /\ ept = s.ept
    /\ ept_root = s.ept_root
    /\ io_bitmap = s.io_bitmap
    /\ ept_stale = s.ept_stale
    /\ vtd_pt = s.vtd_pt
    /\ vtd_root = s.vtd_root
    /\ root_entry_table = s.root_entry_table
    /\ pool_used = s.pool_used
    /\ page_kind = s.page_kind
    /\ ctx_tab = s.ctx_tab
    /\ vtd_tes = s.vtd_tes
    /\ flush_log = s.flush_log
    /\ halted = s.halted
    /\ wild = s.wild
    /\ root_remap = s.root_remap

\* The managers while another part of the hypervisor is examined.
ParkedCells ==
    /\ dmar_units = 0
    /\ op = NoOp
    /\ StateIs(BlankCells)

\* The root cell after bring-up: arch_init_early() and arch_init_late()
\* have run vmx_cell_init() and vtd_cell_init() on linux_cell, whose id
\* is 0, and both succeeded.  No guest has run before, so no translation
\* of the EPT built here is cached.
RootCellBuiltFrom(config) ==
    LET s0 == [BlankCells EXCEPT !.cells[LinuxCellId] =
                   [state |-> "live", config |-> config]]
        s1 == vmx_cell_init(s0, LinuxCellId, 0).s
        s2 == vtd_cell_init(s1, LinuxCellId, 0).s
    IN  [s2 EXCEPT !.flush_log = <<>>, !.ept_stale = FALSE]

RootCellBuilt == RootCellBuiltFrom(SystemConfig)

\* A function of the managers starts with an empty flush log, so that the
\* log holds the flushes of the last function that ran.
Entering == [CellState EXCEPT !.flush_log = <<>>]

Idle == op.step = "idle" /\ ~halted /\ ~wild
Running(step) == op.step = step /\ ~halted /\ ~wild

FreeCellIds == {c \in NewCellIds : cells[c].state = "none"}

\* arch_cell_create(), first call: vmx_linux_cell_shrink(cell->config).
\* The new cell has the lowest free id.
VmxLinuxCellShrink(config, invept_ok) ==
    /\ Idle
    /\ FreeCellIds # {}
    /\ LET c == CHOOSE c \in FreeCellIds : \A d \in FreeCellIds : c <= d
           s0 == [Entering EXCEPT !.cells[c] =
                      [state |-> "creating", config |-> config]]
       IN  /\ SetCellState(vmx_linux_cell_shrink(s0, config, invept_ok))
           /\ op' = [step |-> "vmx_shrunk", cell |-> c]
    /\ UNCHANGED <<bootVars, lifeVars, vmxVars, exitVars, dmar_units>>

\* arch_cell_create(), second call: vmx_cell_init(cell); an error ends the
\* creation and nothing is rolled back.
VmxCellInit(fail_at) ==
    /\ Running("vmx_shrunk")
    /\ fail_at \in 0 .. (Len(cells[op.cell].config.mem) + 1)
    /\ LET r == vmx_cell_init(Entering, op.cell, fail_at)
       IN  IF r.err # 0
           THEN /\ SetCellState([r.s EXCEPT !.cells[op.cell].state = "failed"])
                /\ op' = NoOp
           ELSE /\ SetCellState(r.s)
                /\ op' = [op EXCEPT !.step = "vmx_init"]
    /\ UNCHANGED <<bootVars, lifeVars, vmxVars, exitVars, dmar_units>>

\* arch_cell_create(), third call: vtd_linux_cell_shrink(cell->config).
VtdLinuxCellShrink(garbage) ==
    /\ Running("vmx_init")
    /\ SetCellState(vtd_linux_cell_shrink(Entering, cells[op.cell].config,
                                          garbage))
    /\ op' = [op EXCEPT !.step = "vtd_shrunk"]
    /\ UNCHANGED <<bootVars, lifeVars, vmxVars, exitVars, dmar_units>>

\* arch_cell_create(), last call: vtd_cell_init(cell).
VtdCellInit(fail_at) ==
    /\ Running("vtd_shrunk")
    /\ fail_at \in 0 .. Len(cells[op.cell].config.mem)
    /\ LET r == vtd_cell_init(Entering, op.cell, fail_at)
       IN  SetCellState([r.s EXCEPT !.cells[op.cell].state =
                            IF r.err # 0 THEN "failed" ELSE "live"])
    /\ op' = NoOp
    /\ UNCHANGED <<bootVars, lifeVars, vmxVars, exitVars, dmar_units>>

\* arch_cell_destroy(), first call: vtd_cell_exit(cell).
VtdCellExit(c, garbage) ==
    /\ Idle
    /\ c \in NewCellIds
    /\ cells[c].state = "live"
    /\ LET s1 == vtd_cell_exit(Entering, c, garbage)
       IN  SetCellState([s1 EXCEPT !.cells[c].state = "exiting"])
    /\ op' = [step |-> "vtd_exit", cell |-> c]
    /\ UNCHANGED <<bootVars, lifeVars, vmxVars, exitVars, dmar_units>>

\* arch_cell_destroy(), second call: vmx_cell_exit(cell); then the cell
\* structure is released.
VmxCellExit ==
    /\ Running("vtd_exit")
    /\ LET c == op.cell
           s1 == vmx_cell_exit(Entering, c)
       IN  SetCellState([s1 EXCEPT !.cells[c] = NoCell,
                                   !.ept[c] = NoTable,
                                   !.ept_root[c] = NoPage,
                                   !.io_bitmap[c] = Ports,
                                   !.vtd_pt[c] = NoTable,
                                   !.vtd_root[c] = NoPage])
    /\ op' = NoOp
    /\ UNCHANGED <<bootVars, lifeVars, vmxVars, exitVars, dmar_units>>

\* arch_map_memory_region(cell, mem) for a region of the cell's
\* configuration: vmx_map_memory_region() and vtd_map_memory_region().
MapMemoryRegion(c, n) ==
    /\ Idle
    /\ cells[c].state = "live"
    /\ n \in 1 .. Len(cells[c].config.mem)
    /\ LET mem == cells[c].config.mem[n]
           s1 == vtd_map_memory_region(
                     vmx_map_memory_region(Entering, c, mem), c, mem)
       IN  SetCellState([s1 EXCEPT !.root_remap =
                            IF c = LinuxCellId THEN @ \cup {mem.phys} ELSE @])
    /\ UNCHANGED <<bootVars, lifeVars, vmxVars, exitVars, dmar_units, op>>

\* arch_unmap_memory_region(cell, mem).
UnmapMemoryRegion(c, n) ==
    /\ Idle
    /\ cells[c].state = "live"
    /\ n \in 1 .. Len(cells[c].config.mem)
    /\ LET mem == cells[c].config.mem[n]
           s1 == vtd_unmap_memory_region(
                     vmx_unmap_memory_region(Entering, c, mem), c, mem)
       IN  SetCellState([s1 EXCEPT !.root_remap =
                            IF c = LinuxCellId THEN @ \ {mem.phys} ELSE @])
    /\ UNCHANGED <<bootVars, lifeVars, vmxVars, exitVars, dmar_units, op>>

\* vmx_map_memory_region(&linux_cell, mem) for any region of one page; the
\* call and its region are kept in 'op'.
VmxMapMemoryRegion(mem) ==
    /\ ~halted /\ ~wild
    /\ SetCellState(vmx_map_memory_region(Entering, LinuxCellId, mem))
    /\ op' = [step |-> "mapped", cell |-> LinuxCellId, mem |-> mem]
    /\ UNCHANGED <<bootVars, lifeVars, vmxVars, exitVars, dmar_units>>

\* vmx_unmap_memory_region(&linux_cell, mem).
VmxUnmapMemoryRegion(mem) ==
    /\ ~halted /\ ~wild
    /\ SetCellState(vmx_unmap_memory_region(Entering, LinuxCellId, mem))
    /\ op' = [step |-> "unmapped", cell |-> LinuxCellId, mem |-> mem]
    /\ UNCHANGED <<bootVars, lifeVars, vmxVars, exitVars, dmar_units>>

\* No call of vmx_cpu_init or vmx_cpu_exit is being examined.
NoCall ==
    [fn |-> "none", prev |-> "none", hw |-> GoodHw, run |-> GoodRun,
     pre |-> [state |-> VMXOFF, cr4 |-> FALSE],
     ret |-> 0, done |-> <<>>, vmx_root |-> FALSE]

\* The CPUs that run a cell creation and a cell destruction at once.
AdmCpus == {"create", "destroy"}

NoAdm ==
    [t \in AdmCpus |->
        [pc |-> "done", cell |-> 0, dev |-> [bus |-> 0, devfn |-> 0],
         lo |-> [present |-> FALSE, page |-> -1], table |-> -1, ok |-> TRUE]]

ParkedLife == vmx_last = NoCall /\ adm = NoAdm

\* The state entry() starts from, for a given system configuration and a
\* given CR4.VMXE of each CPU (set when another hypervisor uses VMX).
InitBootFrom(cfg, vmxe, called) ==
    /\ pc = [c \in Cpus |-> IF c \in called THEN "idle" ELSE "not_called"]
    /\ init_lock = NoCpu
    /\ master_cpu_id = -1
    /\ initialized_cpus = 0
    /\ error = 0
    /\ percpu = [c \in Cpus |-> [master |-> FALSE, err |-> 0, cell |-> "none",
                                 retval |-> NotReturned, restored |-> 0,
                                 activated |-> FALSE]]
    /\ linux_cpu_set = {}
    /\ sysconf = cfg
    /\ hist = [counted |-> {}, left_with_error |-> {}, early_runs |-> <<>>,
               late_runs |-> <<>>]
    /\ vmx_state = [c \in Cpus |-> VMXOFF]
    /\ cr4_vmxe = vmxe
    /\ vmx_trans = [c \in Cpus |-> {}]

\* The loader calls entry() on every CPU.
InitBootWith(cfg, vmxe) == InitBootFrom(cfg, vmxe, Cpus)

\* System configurations: the CPU bitmap has room for every CPU or for all
\* but the last, and lists every CPU it has room for, or all but CPU 0.
SysConfs ==
    {[cpu_set |-> (0 .. (n - 1)) \ d, cpu_set_bits |-> n] :
        n \in {NumCpus - 1, NumCpus}, d \in {{}, {0}}}

\* CR4.VMXE before entry(): clear everywhere, or set on CPU 1 (VMX in use).
InitBoot ==
    /\ \E cfg \in SysConfs : \E busy \in {{}, {1}} :
          InitBootWith(cfg, [c \in Cpus |-> c \in busy])
    /\ ParkedExit
    /\ ParkedCells
    /\ ParkedLife

NextBoot ==
    \E c \in Cpus :
       \/ BootCall(c)
       \/ BootLock(c)
       \/ BootRegister(c)
       \/ BootVmxEnable(c)
       \/ BootVmcs(c)
       \/ BootCount(c)
       \/ BootFailed(c)
       \/ BootLate(c)
       \/ BootUnlock(c)
       \/ BootWaitError(c)
       \/ BootWaitCount(c)
       \/ BootCheckError(c)
       \/ BootRestore(c)
       \/ BootReturn(c)
       \/ BootActivate(c)

SpecBoot == InitBoot /\ [][NextBoot]_vars

\* The steps of one CPU.
CpuStep(c) ==
    \/ BootCall(c)
    \/ BootLock(c)
    \/ BootRegister(c)
    \/ BootVmxEnable(c)
    \/ BootVmcs(c)
    \/ BootCount(c)
    \/ BootFailed(c)
    \/ BootLate(c)
    \/ BootUnlock(c)
    \/ BootWaitError(c)
    \/ BootWaitCount(c)
    \/ BootCheckError(c)
    \/ BootRestore(c)
    \/ BootReturn(c)
    \/ BootActivate(c)

\* The configuration that lists every CPU, and the one that has room for
\* all but the last and does not list CPU 0.
LiveConfs ==
    {cfg \in SysConfs :
        \/ cfg.cpu_set = Cpus
        \/ cfg.cpu_set_bits = NumCpus - 1 /\ 0 \notin cfg.cpu_set}

\* No other user of VMX: CR4.VMXE is clear on every CPU before entry().
InitBootLive ==
    /\ \E cfg \in LiveConfs : InitBootWith(cfg, [c \in Cpus |-> FALSE])
    /\ ParkedExit
    /\ ParkedCells
    /\ ParkedLife

\* entry() is called on each of the online_cpus CPUs, and a CPU that can
\* execute its next statement does so: a CPU runs without a scheduler, and
\* the spin lock is released after finitely many statements.  Every step
\* of a CPU changes its position.
SpecBootLive ==
    InitBootLive /\ [][NextBoot]_vars /\ \A c \in Cpus : WF_pc(CpuStep(c))

\* The CPUs on which entry() is called: all of them, or all but one.
CallerSets == {Cpus} \cup {Cpus \ {c} : c \in Cpus}

\* The system configuration lists every CPU and CR4.VMXE is clear.
InitBootSome ==
    /\ \E called \in CallerSets :
          InitBootFrom([cpu_set |-> Cpus, cpu_set_bits |-> NumCpus],
                       [c \in Cpus |-> FALSE], called)
    /\ ParkedExit
    /\ ParkedCells
    /\ ParkedLife

\* As SpecBootLive, with entry() never called on some of the CPUs that
\* hypervisor_header.online_cpus counts.
SpecBootSome ==
    InitBootSome /\ [][NextBoot]_vars /\ \A c \in Cpus : WF_pc(CpuStep(c))

\* The state after every CPU went through entry() without error and entered
\* its guest: the state VM exits start from.
BootDone ==
    /\ pc = [c \in Cpus |-> "guest"]
    /\ init_lock = NoCpu
    /\ master_cpu_id = XCpu
    /\ initialized_cpus = online_cpus
    /\ error = 0
    /\ percpu = [c \in Cpus |-> [master |-> c = XCpu, err |-> 0,
                                 cell |-> "linux", retval |-> NotReturned,
                                 restored |-> 0, activated |-> TRUE]]
    /\ linux_cpu_set = Cpus
    /\ sysconf = [cpu_set |-> Cpus, cpu_set_bits |-> NumCpus]
    /\ hist = [counted |-> Cpus, left_with_error |-> {},
               early_runs |-> <<XCpu>>, late_runs |-> <<XCpu>>]
    /\ vmx_state = [c \in Cpus |-> VMCS_READY]
    /\ cr4_vmxe = [c \in Cpus |-> TRUE]
    /\ vmx_trans = [c \in Cpus |-> {<<VMXOFF, VMXON>>, <<VMXON, VMCS_READY>>}]

GuestRunning ==
    /\ BootDone
    /\ xpc = "guest"
    /\ exit_reason = [failed |-> FALSE, basic |-> "none"]
    /\ exit_qual = NoQual
    /\ guest_regs = RegsAtEntry
    /\ vmcs = GuestOwned(VmcsAfterSetup)
    /\ xlog = NoLog
    /\ snap = [regs |-> guest_regs, vmcs |-> vmcs]

InitExit ==
    /\ GuestRunning
    /\ ParkedCells
    /\ ParkedLife

NextExit ==
    \/ VmExit
    \/ HandleExit
    \/ VmResume
    \/ ScheduleVmexit

SpecExit == InitExit /\ [][NextExit]_vars

\* ------------------------------------------------------------------------
\* SpecCells: cells are created and destroyed, with any number of DMAR
\* units and with every failure of a step.  SpecEpt: the EPT manager's
\* functions, with memory regions of live cells mapped and unmapped between
\* creations and destructions, on a machine with one DMAR unit where INVEPT
\* succeeds and a call fails only when mem_pool runs out.
\* ------------------------------------------------------------------------
InitCells ==
    /\ GuestRunning
    /\ dmar_units \in 0 .. MaxDmarUnits
    /\ op = NoOp
    /\ StateIs(RootCellBuilt)
    /\ ParkedLife

NextCells ==
    \/ \E config \in CellConfigs, ok \in BOOLEAN :
          VmxLinuxCellShrink(config, ok)
    \/ \E fail_at \in 0 .. 2 : VmxCellInit(fail_at)
    \/ \E garbage \in BOOLEAN : VtdLinuxCellShrink(garbage)
    \/ \E fail_at \in 0 .. 1 : VtdCellInit(fail_at)
    \/ \E c \in NewCellIds, garbage \in BOOLEAN : VtdCellExit(c, garbage)
    \/ VmxCellExit

SpecCells == InitCells /\ [][NextCells]_vars

InitEpt ==
    /\ GuestRunning
    /\ dmar_units = 1
    /\ op = NoOp
    /\ StateIs(RootCellBuilt)
    /\ ParkedLife

NextEpt ==
    \/ \E config \in CellConfigs : VmxLinuxCellShrink(config, TRUE)
    \/ VmxCellInit(0)
    \/ VtdLinuxCellShrink(FALSE)
    \/ VtdCellInit(0)
    \/ \E c \in NewCellIds : VtdCellExit(c, FALSE)
    \/ VmxCellExit
    \/ \E c \in CellIds, n \in 1 .. NumPages : MapMemoryRegion(c, n)
    \/ \E c \in CellIds, n \in 1 .. NumPages : UnmapMemoryRegion(c, n)

SpecEpt == InitEpt /\ [][NextEpt]_vars

\* A system without PCI devices under the hypervisor's control, and cells
\* that are given I/O ports only: port 0 through a bitmap of one port,
\* port 0 through a bitmap as long as the system's, and the last port,
\* which the system configuration does not permit to the root cell.
PortConfigs ==
    {[EmptyConfig EXCEPT !.pio_size = 1],
     [EmptyConfig EXCEPT !.pio_size = NumPorts, !.pio_blocked = Ports \ {0}],
     [EmptyConfig EXCEPT !.pio_size = NumPorts,
                         !.pio_blocked = Ports \ {NumPorts - 1}]}

InitPorts ==
    /\ GuestRunning
    /\ dmar_units = 1
    /\ op = NoOp
    /\ StateIs(RootCellBuiltFrom([SystemConfig EXCEPT !.devices = <<>>]))
    /\ ParkedLife

NextPorts ==
    \/ \E config \in PortConfigs : VmxLinuxCellShrink(config, TRUE)
    \/ VmxCellInit(0)
    \/ VtdLinuxCellShrink(FALSE)
    \/ VtdCellInit(0)
    \/ \E c \in NewCellIds : VtdCellExit(c, FALSE)
    \/ VmxCellExit

SpecPorts == InitPorts /\ [][NextPorts]_vars

\* Regions of one page of system memory at the guest page of the same
\* number, as in the system configuration, with every combination of
\* JAILHOUSE_MEM_READ, _WRITE, _EXECUTE and _DMA.
MemFlags == {"R", "W", "X", "DMA"}
AnyRegions ==
    {[phys |-> p, virt |-> p, flags |-> f] : p \in SysPages, f \in SUBSET MemFlags}

\* vmx_map_memory_region and vmx_unmap_memory_region applied to the root
\* cell, in any order, with any region.
NextMap ==
    \/ \E mem \in AnyRegions : VmxMapMemoryRegion(mem)
    \/ \E mem \in AnyRegions : VmxUnmapMemoryRegion(mem)

SpecMap == InitEpt /\ [][NextMap]_vars

\* ------------------------------------------------------------------------
\* SpecVmx: vmx_cpu_init and vmx_cpu_exit called on one CPU, in any order
\* and any number of times, on any hardware.
\* ------------------------------------------------------------------------
\* GoodHw, every hardware that differs from it in one flag, and every one
\* that differs in the VMX feature bit or a feature-control bit and one more.
HwPairs ==
    {[GoodHw EXCEPT ![f] = ~GoodHw[f], ![g] = ~GoodHw[g]] :
        f \in {"vmx_feature", "fc_locked", "fc_vmxon"}, g \in DOMAIN GoodHw}
    \cup HwCases

\* vmx_cpu_init(cpu_data) on a CPU whose vmx_state is VMXOFF, as it is in
\* per-CPU data that was never used or that vmx_cpu_exit has left.
VmxCpuInit(hw, run) ==
    /\ vmx_state[XCpu] = VMXOFF
    /\ LET r == vmx_cpu_init(hw, VmcsOutcome(run), vmx_state[XCpu],
                             cr4_vmxe[XCpu])
       IN
       /\ SetVmxState(XCpu, r.state, r.cr4)
       /\ vmx_last' = [fn |-> "init", prev |-> vmx_last.fn, hw |-> hw,
                       run |-> IF r.cr4 /\ ~cr4_vmxe[XCpu] THEN run
                               ELSE GoodRun,
                       pre |-> [state |-> vmx_state[XCpu],
                                cr4 |-> cr4_vmxe[XCpu]],
                       ret |-> r.ret, done |-> <<>>,
                       vmx_root |-> IF r.state # VMXOFF THEN TRUE
                                    ELSE vmx_last.vmx_root]
       /\ vmcs' = IF r.state = VMCS_READY THEN VmcsAfterSetup ELSE vmcs
    /\ UNCHANGED <<bootVars, xpc, exit_reason, exit_qual, guest_regs, xlog,
                   snap, cellVars, adm>>

\* vmx_cpu_exit(cpu_data).
VmxCpuExit ==
    /\ LET r == vmx_cpu_exit(vmx_state[XCpu], cr4_vmxe[XCpu]) IN
       /\ SetVmxState(XCpu, r.state, r.cr4)
       /\ vmx_last' = [vmx_last EXCEPT
                         !.fn = "exit", !.prev = vmx_last.fn,
                         !.pre = [state |-> vmx_state[XCpu],
                                  cr4 |-> cr4_vmxe[XCpu]],
                         !.ret = 0, !.done = r.done,
                         !.vmx_root = IF \E i \in 1 .. Len(r.done) :
                                            r.done[i] = "vmxoff"
                                      THEN FALSE ELSE @]
    /\ UNCHANGED <<bootVars, exitVars, cellVars, adm>>

\* vmx_schedule_vmexit(cpu_data) in whatever state the CPU is.  Outside VMX
\* operation VMREAD and VMWRITE raise #UD and change no field; in VMX
\* operation the write reaches the field when the VMCS is current, which
\* it is on a READY CPU and may be on a CPU left in VMXON by a failed
\* vmcs_setup().
VmxScheduleVmexit ==
    /\ \E current \in BOOLEAN :
          /\ vmx_state[XCpu] = VMCS_READY => current
          /\ vmx_state[XCpu] = VMXOFF => ~current
          /\ vmcs' = IF current THEN vmx_schedule_vmexit(vmx_state[XCpu], vmcs)
                                ELSE vmcs
    /\ vmx_last' = [vmx_last EXCEPT
                      !.fn = "schedule_vmexit", !.prev = vmx_last.fn,
                      !.pre = [state |-> vmx_state[XCpu],
                               cr4 |-> cr4_vmxe[XCpu]],
                      !.done = vmx_schedule_vmexit_accesses(vmx_state[XCpu])]
    /\ UNCHANGED <<bootVars, vmxVars, xpc, exit_reason, exit_qual, guest_regs,
                   xlog, snap, cellVars, adm>>

\* CR4.VMXE of the CPU is clear, or set by another user of VMX.
InitVmx ==
    /\ \E busy \in BOOLEAN :
          InitBootWith([cpu_set |-> Cpus, cpu_set_bits |-> NumCpus],
                       [c \in Cpus |-> c = XCpu /\ busy])
    /\ ParkedExit
    /\ ParkedCells
    /\ ParkedLife

NextVmx ==
    \/ \E hw \in HwPairs, run \in VmcsRuns : VmxCpuInit(hw, run)
    \/ VmxCpuExit
    \/ VmxScheduleVmexit

SpecVmx == InitVmx /\ [][NextVmx]_vars

\* ------------------------------------------------------------------------
\* SpecRace: CPU "create" is in the device loop of vtd_cell_init() for a new
\* cell while CPU "destroy" is in the device loop of vtd_cell_exit() for
\* another cell; the devices are on the same bus.  vtd.c takes no lock, so
\* the statements of vtd_add_device_to_cell() and
\* vtd_remove_device_from_cell() interleave, one access to shared memory
\* per step.
\* ------------------------------------------------------------------------

\* A cell configuration with one PCI device and nothing else.
DeviceConfig(bus, devfn) ==
    [EmptyConfig EXCEPT !.devices = <<[bus |-> bus, devfn |-> devfn]>>]

\* The system owns both devices of one bus.  Cell 1 was created with device
\* devfn; cell 2, with the other device, has gone through
\* vmx_linux_cell_shrink, vmx_cell_init and vtd_linux_cell_shrink and is in
\* vtd_cell_init() before its device loop.
RaceStart(bus, devfn) ==
    LET sys == [SystemConfig EXCEPT
                  !.devices = <<[bus |-> bus, devfn |-> 0],
                                [bus |-> bus, devfn |-> 1]>>]
        old == DeviceConfig(bus, devfn)
        new == DeviceConfig(bus, 1 - devfn)
        s0 == [RootCellBuiltFrom(sys) EXCEPT
                  !.cells[1] = [state |-> "creating", config |-> old]]
        s1 == vmx_cell_init(vmx_linux_cell_shrink(s0, old, TRUE), 1, 0).s
        s2 == vtd_cell_init(vtd_linux_cell_shrink(s1, old, FALSE), 1, 0).s
        s3 == [s2 EXCEPT !.cells[1].state = "live",
                         !.cells[2] = [state |-> "creating", config |-> new]]
        s4 == vmx_cell_init(vmx_linux_cell_shrink(s3, new, TRUE), 2, 0).s
        s5 == vtd_linux_cell_shrink(s4, new, FALSE)
        p == page_alloc(s5.pool_used)
    IN  [s5 EXCEPT !.vtd_root[2] = p,
                   !.pool_used = @ \cup {p},
                   !.page_kind[p] = "vtd",
                   !.vtd_pt[2] = NoTable,
                   !.flush_log = <<>>]

InitRace ==
    /\ GuestRunning
    /\ dmar_units = 1
    /\ op = NoOp
    /\ vmx_last = NoCall
    /\ \E bus \in Buses, devfn \in Devfns :
          /\ StateIs(RaceStart(bus, devfn))
          /\ adm = [t \in AdmCpus |->
                      [NoAdm[t] EXCEPT
                         !.pc = IF t = "create" THEN "add_read" ELSE "rem_read",
                         !.cell = IF t = "create" THEN 2 ELSE 1,
                         !.dev = [bus |-> bus,
                                  devfn |-> IF t = "create" THEN 1 - devfn
                                                            ELSE devfn]]]

AdmAt(t, pc_) == adm[t].pc = pc_ /\ ~wild

AdmOnly == UNCHANGED <<bootVars, vmxVars, exitVars, cellVars, vmx_last>>
AdmFrame == UNCHANGED <<bootVars, vmxVars, exitVars, vmx_last, op, dmar_units>>

\* u64 root_entry_lo = root_entry_table[device->bus].lo_word;
AdmAddRead(t) ==
    /\ AdmAt(t, "add_read")
    /\ adm' = [adm EXCEPT ![t].lo = root_entry_table[adm[t].dev.bus],
                          ![t].pc = "add_table"]
    /\ AdmOnly

\* if (root_entry_lo & VTD_ROOT_PRESENT) the table is the one the local
\* copy names; else page_alloc(): NULL makes the function return false.
AdmAddTable(t) ==
    /\ AdmAt(t, "add_table")
    /\ IF adm[t].lo.present
       THEN /\ adm' = [adm EXCEPT ![t].table = adm[t].lo.page,
                                  ![t].pc = "add_entry"]
            /\ AdmOnly
       ELSE LET p == page_alloc(pool_used) IN
            IF p = NoPage
            THEN /\ adm' = [adm EXCEPT ![t].ok = FALSE, ![t].pc = "tail"]
                 /\ AdmOnly
            ELSE /\ adm' = [adm EXCEPT ![t].table = p, ![t].pc = "add_root"]
                 /\ SetCellState([CellState EXCEPT
                                    !.pool_used = @ \cup {p},
                                    !.page_kind[p] = "ctx",
                                    !.ctx_tab[p] = NoContextTable])
                 /\ AdmFrame

\* root_entry_table[device->bus].lo_word = VTD_ROOT_PRESENT | table;
AdmAddRoot(t) ==
    /\ AdmAt(t, "add_root")
    /\ SetCellState([CellState EXCEPT
                       !.root_entry_table[adm[t].dev.bus] =
                           [present |-> TRUE, page |-> adm[t].table]])
    /\ adm' = [adm EXCEPT ![t].pc = "add_entry"]
    /\ AdmFrame

\* context_entry->lo_word = VTD_CTX_PRESENT | ...; hi_word = ...  A table
\* that was freed in between is memory the CPU does not own any more.
AdmAddEntry(t) ==
    /\ AdmAt(t, "add_entry")
    /\ SetCellState([CellState EXCEPT
                       !.ctx_tab[adm[t].table][adm[t].dev.devfn] =
                           [present |-> TRUE, ptr |-> vtd_root[adm[t].cell],
                            did |-> adm[t].cell],
                       !.wild = adm[t].table \notin pool_used])
    /\ adm' = [adm EXCEPT ![t].pc = "tail"]
    /\ AdmFrame

\* u64 root_entry_lo = root_entry_table[device->bus].lo_word;
AdmRemRead(t) ==
    /\ AdmAt(t, "rem_read")
    /\ adm' = [adm EXCEPT ![t].lo = root_entry_table[adm[t].dev.bus],
                          ![t].table = root_entry_table[adm[t].dev.bus].page,
                          ![t].pc = "rem_test"]
    /\ AdmOnly

\* Where the destroying CPU goes when vtd_remove_device_from_cell()
\* returns: into vtd_return_device_to_linux(), which adds the device to the
\* root cell if its configuration has it.
AfterRemove(t) ==
    IF adm[t].dev \in {cells[LinuxCellId].config.devices[n] :
                          n \in 1 .. Len(cells[LinuxCellId].config.devices)}
    THEN [adm EXCEPT ![t].pc = "add_read", ![t].cell = LinuxCellId]
    ELSE [adm EXCEPT ![t].pc = "tail"]

\* if (!(context_entry->lo_word & VTD_CTX_PRESENT)) return;
AdmRemTest(t) ==
    /\ AdmAt(t, "rem_test")
    /\ adm' = IF ctx_tab[adm[t].table][adm[t].dev.devfn].present
              THEN [adm EXCEPT ![t].pc = "rem_clear"]
              ELSE AfterRemove(t)
    /\ AdmOnly

\* context_entry->lo_word &= ~VTD_CTX_PRESENT;
AdmRemClear(t) ==
    /\ AdmAt(t, "rem_clear")
    /\ SetCellState([CellState EXCEPT
                       !.ctx_tab[adm[t].table][adm[t].dev.devfn] = NoContext])
    /\ adm' = [adm EXCEPT ![t].pc = "rem_scan"]
    /\ AdmFrame

\* for (n = 0; n < 256; n++) if (... & VTD_CTX_PRESENT) return;
AdmRemScan(t) ==
    /\ AdmAt(t, "rem_scan")
    /\ adm' = IF \E f \in Devfns : ctx_tab[adm[t].table][f].present
              THEN AfterRemove(t)
              ELSE [adm EXCEPT ![t].pc = "rem_root"]
    /\ AdmOnly

\* root_entry_table[device->bus].lo_word &= ~VTD_ROOT_PRESENT;
AdmRemRoot(t) ==
    /\ AdmAt(t, "rem_root")
    /\ SetCellState([CellState EXCEPT
                       !.root_entry_table[adm[t].dev.bus].present = FALSE])
    /\ adm' = [adm EXCEPT ![t].pc = "rem_free"]
    /\ AdmFrame

\* page_free(&mem_pool, context_entry_table, 1);
AdmRemFree(t) ==
    /\ AdmAt(t, "rem_free")
    /\ SetCellState(page_free(CellState, adm[t].table))
    /\ adm' = AfterRemove(t)
    /\ AdmFrame

\* The rest of vtd_cell_init() (vtd_enable, or the error return) and of
\* vtd_cell_exit() (two flushes and the release of the cell's page table).
AdmTail(t) ==
    /\ AdmAt(t, "tail")
    /\ LET c == IF t = "create" THEN 2 ELSE 1 IN
       IF t = "create"
       THEN SetCellState(
              IF adm[t].ok
              THEN [vtd_enable(Entering) EXCEPT !.cells[c].state = "live"]
              ELSE [CellState EXCEPT !.cells[c].state = "failed"])
       ELSE SetCellState(
              [page_free(vtd_flush_domain_caches(
                            vtd_flush_domain_caches(Entering, c), LinuxCellId),
                         vtd_root[c])
                 EXCEPT !.cells[c].state = "exiting"])
    /\ adm' = [adm EXCEPT ![t].pc = "done"]
    /\ AdmFrame

NextRace ==
    \E t \in AdmCpus :
       \/ AdmAddRead(t)
       \/ AdmAddTable(t)
       \/ AdmAddRoot(t)
       \/ AdmAddEntry(t)
       \/ AdmRemRead(t)
       \/ AdmRemTest(t)
       \/ AdmRemClear(t)
       \/ AdmRemScan(t)
       \/ AdmRemRoot(t)
       \/ AdmRemFree(t)
       \/ AdmTail(t)

SpecRace == InitRace /\ [][NextRace]_vars

(***************************************************************************)
(* Claims about the bring-up coordinator.                                  *)
(***************************************************************************)
\* Positions of entry() at which a CPU has not yet finished its admission
\* and setup (register_linux_cpu and arch_cpu_init inside cpu_init).
AdmissionPcs == {"idle", "spin_lock", "register", "arch_cpu_init", "vmcs",
                 "count", "failed"}

\* Positions from the call of arch_cpu_activate_vmm on.
ActivatePcs == {"activate", "guest", "halted"}

\* C1: bring-up barrier.  Whenever a CPU is at or past its call of
\* arch_cpu_activate_vmm, initialized_cpus has reached online_cpus, the
\* error flag is 0, every counted CPU is registered with the root cell and
\* has vmx_state READY, and no CPU is before or inside its admission and
\* setup.
C1_BringUpBarrier ==
    \A c \in Cpus :
       pc[c] \in ActivatePcs =>
          /\ initialized_cpus >= online_cpus
          /\ error = 0
          /\ \A d \in hist.counted :
                /\ vmx_state[d] = VMCS_READY
                /\ percpu[d].cell = "linux"
                /\ d \in linux_cpu_set
                /\ percpu[d].err = 0
          /\ \A d \in Cpus : pc[d] \notin AdmissionPcs
          /\ Cardinality(hist.counted) = initialized_cpus

\* A CPU runs as a guest while a sibling has not yet left the busy-wait.
C1_Witness ==
    \E c, d \in Cpus :
       /\ pc[c] = "guest"
       /\ pc[d] \in {"unlock", "wait_error", "wait_count"}
       /\ initialized_cpus = online_cpus

\* Positions of the abort path of entry().
AbortPcs == {"check_error", "restore", "return", "returned"}

\* C2: abort path.  A CPU that left the busy-wait because the error flag
\* was nonzero stays on the abort path and never calls
\* arch_cpu_activate_vmm; the flag stays nonzero; before it returns the CPU
\* has called arch_cpu_restore once, and it returns the negative value of
\* the error flag.
C2_AbortPath ==
    \A c \in Cpus :
       /\ c \in hist.left_with_error =>
             /\ pc[c] \in AbortPcs
             /\ ~percpu[c].activated
             /\ error < 0
       /\ pc[c] \in {"return", "returned"} => percpu[c].restored = 1
       /\ pc[c] = "returned" =>
             /\ percpu[c].retval = error
             /\ percpu[c].retval < 0
             /\ ~percpu[c].activated

\* Two CPUs have returned: the one whose cpu_init failed and one that had
\* been counted.
C2_Witness ==
    \E c, d \in Cpus :
       /\ pc[c] = "returned" /\ percpu[c].err # 0
       /\ pc[d] = "returned" /\ d \in hist.counted
       /\ d \in hist.left_with_error

(***************************************************************************)
(* Claims about the per-CPU VMX life cycle.                                *)
(***************************************************************************)
\* A step changes the vmx_state of a CPU only along a pair of 'allowed'.
VmxStepsWithin(allowed) ==
    \A c \in Cpus :
       vmx_state'[c] # vmx_state[c] => <<vmx_state[c], vmx_state'[c]>> \in allowed

\* C3 as claimed: vmx_state changes only along OFF->ON, ON->READY and
\* READY->OFF.
C3_Original ==
    [][VmxStepsWithin({<<VMXOFF, VMXON>>, <<VMXON, VMCS_READY>>,
                       <<VMCS_READY, VMXOFF>>})]_vars

\* C3, amended: vmx_state changes only along OFF->ON, ON->READY, READY->OFF
\* and ON->OFF; the last is vmx_cpu_exit after a vmx_cpu_init that failed
\* past VMXON.
C3_Transitions ==
    [][VmxStepsWithin({<<VMXOFF, VMXON>>, <<VMXON, VMCS_READY>>,
                       <<VMCS_READY, VMXOFF>>, <<VMXON, VMXOFF>>})]_vars

\* Both teardown transitions have happened, each after the CPU went up.
C3_Witness ==
    \E c, d \in Cpus :
       /\ vmx_trans[c] = {<<VMXOFF, VMXON>>, <<VMXON, VMXOFF>>}
       /\ vmx_trans[d] = {<<VMXOFF, VMXON>>, <<VMXON, VMCS_READY>>,
                          <<VMCS_READY, VMXOFF>>}

\* ------------------------------------------------------------------------
\* Claims about VM-exit handling (checked under SpecExit)
\* ------------------------------------------------------------------------

\* vmx_handle_exit() has run for the current exit and left the state as is.
ExitHandled ==
    /\ xpc \in {"resume", "halted", "linux"}
    /\ xlog.panic # "vmresume failed"

\* The exit is a VMCALL whose rax is none of the three hypercall codes.
UnknownHypercall ==
    /\ exit_reason = [failed |-> FALSE, basic |-> "VMCALL"]
    /\ snap.regs.rax \notin {U64(JAILHOUSE_HC_DISABLE),
                             U64(JAILHOUSE_HC_CELL_CREATE),
                             U64(JAILHOUSE_HC_CELL_DESTROY)}

\* The caller passes the test of vmx_handle_hypercall(): not virtual-8086
\* mode outside long mode, and CS with requested privilege level 0.
CallerPrivileged ==
    /\ ~ (/\ snap.vmcs.GUEST_IA32_EFER \cap EFER_LMA = {}
          /\ snap.vmcs.GUEST_RFLAGS \cap X86_RFLAGS_VM # {})
    /\ snap.vmcs.GUEST_CS_SELECTOR \cap {0, 1} = {}

\* C7 as stated: a hypercall with an unknown code leaves -ENOSYS in rax,
\* changes no other general-purpose register, calls nothing in the cell
\* manager, and leaves the CPU's VMX state alone.
C7_Original ==
    (ExitHandled /\ UnknownHypercall) =>
       /\ xpc = "resume"
       /\ guest_regs = [snap.regs EXCEPT !.rax = U64(-ENOSYS)]
       /\ xlog.callee = "none"
       /\ vmx_state[XCpu] = VMCS_READY

\* C7 (amended): a hypercall with an unknown code leaves -ENOSYS in rax
\* when the caller passes the privilege test and -EPERM when it does not;
\* either way the guest is resumed with GUEST_RIP advanced past the VMCALL
\* instruction, and no other register, VMCS field, cell-manager state or
\* VMX state of the CPU is changed.
C7_UnknownHypercall ==
    (ExitHandled /\ UnknownHypercall) =>
       /\ xpc = "resume"
       /\ guest_regs = [snap.regs EXCEPT
                          !.rax = IF CallerPrivileged THEN U64(-ENOSYS)
                                                      ELSE U64(-EPERM)]
       /\ vmcs = [snap.vmcs EXCEPT !.GUEST_RIP = @ + X86_INST_LEN_VMCALL]
       /\ xlog = [NoLog EXCEPT !.handler = "VMCALL"]
       /\ vmx_state[XCpu] = VMCS_READY
       /\ cr4_vmxe[XCpu]

C7_Witness ==
    /\ ExitHandled
    /\ UnknownHypercall
    /\ CallerPrivileged
    /\ snap.regs.rax = U64(3)
    /\ guest_regs.rax = U64(-ENOSYS)

\* C10: when vmx_handle_exit() finds the failed-VM-entry bit set, whatever
\* the other bits of the reason, it stops the CPU with the VM-entry-failure
\* message without running a handler of the switch and without changing a
\* guest register, a VMCS field or the VMX state; a stopped CPU never runs
\* again.
C10_FailedEntryHalts ==
    [][/\ (xpc = "exit" /\ exit_reason.failed) =>
             /\ xpc' = "halted"
             /\ xlog' = [NoLog EXCEPT !.panic = "VM-Entry failure"]
             /\ guest_regs' = guest_regs
             /\ vmcs' = vmcs
             /\ vmx_state' = vmx_state
       /\ xpc = "halted" => xpc' = "halted"]_vars

C10_Witness ==
    /\ xpc = "halted"
    /\ exit_reason = [failed |-> TRUE, basic |-> "VMCALL"]
    /\ xlog.panic = "VM-Entry failure"
    /\ snap.regs.rax = U64(JAILHOUSE_HC_CELL_CREATE)

(***************************************************************************)
(* Claims about cells (checked under SpecCells and SpecEpt).               *)
(***************************************************************************)
Regions(config) == {config.mem[n] : n \in 1 .. Len(config.mem)}
Devices(config) == {config.devices[n] : n \in 1 .. Len(config.devices)}

\* The context entry the DMAR units find for a device, if its root entry is
\* present.
ContextEntryIn(s, d) ==
    IF s.root_entry_table[d.bus].present
    THEN s.ctx_tab[s.root_entry_table[d.bus].page][d.devfn]
    ELSE NoContext

\* The device is present in the IOMMU domain of cell c.
InDomainIn(s, c, d) ==
    /\ s.cells[c].state # "none"
    /\ ContextEntryIn(s, d).present
    /\ ContextEntryIn(s, d).ptr = s.vtd_root[c]

InDomain(c, d) == InDomainIn(CellState, c, d)
DomainsOf(d) == {c \in CellIds : InDomain(c, d)}

\* The rights mapping m gives to its page are rights a region of the
\* cell's configuration grants for that page.
Granted(c, m) ==
    \E r \in Regions(cells[c].config) :
       r.phys = m.phys /\ (m.flags \ {"WB"}) \subseteq r.flags

ApicAccessMapping ==
    [present |-> TRUE, phys |-> ApicAccessPage, flags |-> {"WB", "R", "W"}]

RootMaps(p) ==
    \E g \in GuestPages : ept[LinuxCellId][g].present /\ ept[LinuxCellId][g].phys = p

\* Pages of the regions of the non-root cells that exist.
CarvedPages ==
    {r.phys : r \in UNION {Regions(cells[c].config) :
                             c \in {x \in NewCellIds : cells[x].state # "none"}}}

\* C4 as stated: every right a cell's EPT gives to a page is granted by a
\* region of the cell's configuration, and no page carved out for a non-root
\* cell is reachable through the root cell's EPT.
C4_Original ==
    ~wild =>
       /\ \A c \in CellIds, g \in GuestPages :
             ept[c][g].present => Granted(c, ept[c][g])
       /\ \A p \in CarvedPages : ~RootMaps(p)

\* C4: every mapping of a cell's EPT is either the APIC access page, mapped
\* read/write at XAPIC_BASE, or gives rights that a region of the cell's
\* configuration grants for the page; a page carved out for a non-root cell
\* is reachable through the root cell's EPT only if vmx_map_memory_region()
\* mapped it for the root cell after the carving.
C4_EptIsolation ==
    ~wild =>
       /\ \A c \in CellIds, g \in GuestPages :
             ept[c][g].present =>
                \/ g = XAPIC_BASE /\ ept[c][g] = ApicAccessMapping
                \/ Granted(c, ept[c][g])
       /\ \A p \in CarvedPages : RootMaps(p) => p \in root_remap

\* A created cell runs with a page of system memory in its EPT that the
\* root cell's EPT no longer maps.
C4_Witness ==
    /\ Idle
    /\ \E c \in NewCellIds, g \in GuestPages :
          /\ cells[c].state = "live"
          /\ ept[c][g].present
          /\ ept[c][g].phys \in SysPages
          /\ ~RootMaps(ept[c][g].phys)

NoNonRootCell ==
    /\ Idle
    /\ op = NoOp
    /\ \A c \in NewCellIds : cells[c].state = "none"

RootDevicesIn(s) ==
    {d \in Devices(SystemConfig) : InDomainIn(s, LinuxCellId, d)}

OnePageRW(config) ==
    /\ Len(config.mem) = 1
    /\ config.mem[1].flags = {"R", "W"}
    /\ Len(config.devices) = 0

\* What C8 says of the two steps, for a region at guest pages in where.
C8_PostState(where) ==
    /\ (/\ op.step = "idle"
        /\ op'.step = "vmx_shrunk"
        /\ OnePageRW(cells'[op'.cell].config)
        /\ cells'[op'.cell].config.mem[1].virt \in where)
       => LET r == cells'[op'.cell].config.mem[1]
          IN  /\ ~ept'[LinuxCellId][r.phys].present
              /\ \A g \in GuestPages \ {r.phys} :
                    ept'[LinuxCellId][g] = ept[LinuxCellId][g]
    /\ (/\ op.step = "vmx_shrunk"
        /\ op'.step = "vmx_init"
        /\ OnePageRW(cells[op.cell].config)
        /\ cells[op.cell].config.mem[1].virt \in where)
       => LET r == cells[op.cell].config.mem[1]
          IN  /\ ept'[LinuxCellId] = ept[LinuxCellId]
              /\ ~RootMaps(r.phys)'
              /\ ept'[op.cell][r.virt] =
                    [present |-> TRUE, phys |-> r.phys,
                     flags |-> {"WB", "R", "W"}]

\* C8 as stated: for a configuration with one read+write page and no device,
\* vmx_linux_cell_shrink() removes the page from the root cell's EPT and
\* changes no other mapping of it, and after vmx_cell_init() the new cell's
\* EPT maps the page read+write, without execute.
C8_Original == [][C8_PostState(GuestPages)]_vars

\* C8: for a configuration with one read+write page whose guest address is
\* not XAPIC_BASE and no device, vmx_linux_cell_shrink() removes the page
\* from the root cell's EPT and changes no other mapping of it, and after
\* vmx_cell_init() the root cell's EPT is as the shrink left it and the new
\* cell's EPT maps the page read+write, without execute.
C8_CreatePostState == [][C8_PostState(GuestPages \ {XAPIC_BASE})]_vars

\* vmx_linux_cell_shrink() and vmx_cell_init() have run for such a cell.
C8_Witness ==
    /\ op.step = "vmx_init"
    /\ OnePageRW(cells[op.cell].config)
    /\ LET r == cells[op.cell].config.mem[1]
       IN  /\ r.virt # XAPIC_BASE
           /\ ept[op.cell][r.virt].present
           /\ ept[op.cell][r.virt].phys = r.phys
           /\ ~RootMaps(r.phys)

FlushCount(log, unit, did) ==
    Cardinality({i \in 1 .. Len(log) : log[i] = <<unit, did>>})

\* C9: when vtd_cell_exit() runs for a cell that owns the one device of its
\* configuration, a device the root cell's configuration lists, afterwards
\* the device's context entry is present, points at the root cell's page
\* table and carries the root cell's id, and each DMAR unit has been
\* flushed once for the cell's id, once for the root cell's id and for
\* nothing else.
C9_ExitReturnsDevice ==
    [][\A c \in NewCellIds :
          (/\ op.step = "idle"
           /\ op' = [step |-> "vtd_exit", cell |-> c]
           /\ Len(cells[c].config.devices) = 1
           /\ cells[c].config.devices[1] \in Devices(SystemConfig)
           /\ InDomain(c, cells[c].config.devices[1]))
          => LET d == cells[c].config.devices[1]
             IN  /\ ~wild'
                 /\ InDomain(LinuxCellId, d)'
                 /\ ContextEntryIn(CellState, d)'.did = LinuxCellId
                 /\ Len(flush_log') = 2 * dmar_units
                 /\ \A u \in 0 .. (dmar_units - 1) :
                       /\ FlushCount(flush_log', u, c) = 1
                       /\ FlushCount(flush_log', u, LinuxCellId) = 1]_vars

\* vtd_cell_exit() has run for a cell with one device, which is the root
\* cell's again, and the DMAR units have been flushed.
C9_Witness ==
    /\ op.step = "vtd_exit"
    /\ ~wild
    /\ dmar_units > 0
    /\ Len(cells[op.cell].config.devices) = 1
    /\ InDomain(LinuxCellId, cells[op.cell].config.devices[1])
    /\ Len(flush_log) = 2 * dmar_units

(***************************************************************************)
(* Claims about vmx_cpu_init and vmx_cpu_exit (checked under SpecVmx).     *)
(***************************************************************************)
\* C11: a vmx_cpu_exit that follows a vmx_cpu_exit changes neither
\* vmx_state, which is VMXOFF, nor CR4.VMXE, nor whether the CPU is in VMX
\* operation, and executes no VMCLEAR, no VMXOFF and no write to CR4.
C11_ExitIdempotent ==
    [][(vmx_last.fn = "exit" /\ vmx_last'.fn = "exit")
       => /\ vmx_state[XCpu] = VMXOFF
          /\ vmx_state' = vmx_state
          /\ cr4_vmxe' = cr4_vmxe
          /\ vmx_last'.vmx_root = vmx_last.vmx_root
          /\ vmx_last'.done = <<>>]_vars

\* vmx_cpu_exit has run twice in a row on a CPU that had reached VMCS_READY.
C11_Witness ==
    /\ vmx_last.fn = "exit"
    /\ vmx_last.prev = "exit"
    /\ vmx_last.done = <<>>
    /\ <<VMCS_READY, VMXOFF>> \in vmx_trans[XCpu]
    /\ ~vmx_last.vmx_root

\* The capabilities vmx_cpu_init requires after the VMX feature bit.
Capabilities ==
    DOMAIN GoodHw \ {"vmx_feature", "fc_locked", "fc_vmxon", "vmxon_ok"}

\* The hardware differs from GoodHw in the flags of fs and in no other.
OnlyMissing(hw, fs) == \A f \in DOMAIN GoodHw : (hw[f] # GoodHw[f]) <=> f \in fs

\* C14 as stated: a CPU that lacks one required capability, the VMX feature
\* bit included, gets -EIO; a locked feature-control register without the
\* VMX-enable bit gets -ENODEV; CR4.VMXE set on entry gets -EBUSY.
C14_Original ==
    vmx_last.fn = "init" =>
       /\ \A f \in Capabilities \cup {"vmx_feature"} :
             (OnlyMissing(vmx_last.hw, {f}) /\ ~vmx_last.pre.cr4)
                => vmx_last.ret = -EIO
       /\ (OnlyMissing(vmx_last.hw, {"fc_vmxon"}) /\ ~vmx_last.pre.cr4)
             => vmx_last.ret = -ENODEV
       /\ (vmx_last.hw = GoodHw /\ vmx_last.pre.cr4) => vmx_last.ret = -EBUSY

\* C14: vmx_cpu_init returns -ENODEV on a CPU without the VMX feature bit;
\* otherwise -EBUSY if CR4.VMXE is set on entry; otherwise -EIO if any
\* other required capability is missing; otherwise -ENODEV if the
\* feature-control register is locked without the VMX-enable bit.
C14_StatusCodes ==
    vmx_last.fn = "init" =>
       LET hw == vmx_last.hw
           missing == \E f \in Capabilities : ~hw[f]
       IN  /\ ~hw.vmx_feature => vmx_last.ret = -ENODEV
           /\ (hw.vmx_feature /\ vmx_last.pre.cr4) => vmx_last.ret = -EBUSY
           /\ (hw.vmx_feature /\ ~vmx_last.pre.cr4 /\ missing)
                 => vmx_last.ret = -EIO
           /\ (/\ hw.vmx_feature
               /\ ~vmx_last.pre.cr4
               /\ ~missing
               /\ hw.fc_locked
               /\ ~hw.fc_vmxon) => vmx_last.ret = -ENODEV

\* vmx_cpu_init has run on a CPU that lacks the VMX feature bit and one
\* more capability, with CR4.VMXE clear.
C14_Witness ==
    /\ vmx_last.fn = "init"
    /\ ~vmx_last.hw.vmx_feature
    /\ \E f \in Capabilities : ~vmx_last.hw[f]
    /\ ~vmx_last.pre.cr4
    /\ vmx_last.ret = -ENODEV

(***************************************************************************)
(* Claims about hypercalls and malformed guests (checked under SpecExit).  *)
(***************************************************************************)
\* The exit being handled is a VMCALL exit without the failed-entry bit.
HypercallExit ==
    xpc = "exit" /\ ~exit_reason.failed /\ exit_reason.basic = "VMCALL"

\* The guest is not at privilege level 0, or is in virtual-8086 mode
\* outside long mode.
UnexpectedPrivilege ==
    \/ vmcs.GUEST_CS_SELECTOR \cap {0, 1} # {}
    \/ /\ vmcs.GUEST_RFLAGS \cap X86_RFLAGS_VM # {}
       /\ vmcs.GUEST_IA32_EFER \cap EFER_LMA = {}

\* The function the hypercall handler calls for a function code.
CalleeOf(rax) ==
    CASE rax = U64(JAILHOUSE_HC_DISABLE) -> "shutdown"
      [] rax = U64(JAILHOUSE_HC_CELL_CREATE) -> "cell_create"
      [] rax = U64(JAILHOUSE_HC_CELL_DESTROY) -> "cell_destroy"
      [] OTHER -> "none"

\* C12: a hypercall exit of a guest that is not at privilege level 0 or is
\* in virtual-8086 mode outside long mode leaves -EPERM in rax and calls
\* none of shutdown, cell_create and cell_destroy, whatever the function
\* code; any other hypercall exit calls the function of its code and leaves
\* that function's result in rax.
C12_PermissionCheck ==
    [][HypercallExit =>
         IF UnexpectedPrivilege
         THEN /\ guest_regs'.rax = U64(-EPERM)
              /\ xlog'.callee = "none"
              /\ xpc' = "resume"
         ELSE /\ xlog'.callee = CalleeOf(guest_regs.rax)
              /\ xlog'.callee # "none" => guest_regs'.rax = U64(xlog'.hc_ret)]_vars

\* A DISABLE hypercall from ring 3 in long mode was answered with -EPERM.
C12_Witness ==
    /\ xpc = "resume"
    /\ xlog.handler = "VMCALL"
    /\ snap.regs.rax = U64(JAILHOUSE_HC_DISABLE)
    /\ snap.vmcs.GUEST_CS_SELECTOR = U64(35)
    /\ snap.vmcs.GUEST_IA32_EFER \cap EFER_LMA # {}
    /\ guest_regs.rax = U64(-EPERM)
    /\ xlog.callee = "none"

\* C13: when shutdown() returns 0 for a DISABLE hypercall the CPU leaves VMX
\* operation and continues in Linux at the instruction after the VMCALL
\* with rax 0, and no VMRESUME follows on that CPU; when shutdown() returns
\* another status the CPU stays in VMX operation and the handler returns
\* for a VMRESUME with that status in rax.
C13_DisableOutcome ==
    [][/\ (xpc = "exit" /\ xlog'.callee = "shutdown") =>
            IF xlog'.hc_ret = 0
            THEN /\ xpc' = "linux"
                 /\ guest_regs'.rax = {}
                 /\ vmcs'.GUEST_RIP = vmcs.GUEST_RIP + X86_INST_LEN_VMCALL
                 /\ vmx_state'[XCpu] = VMXOFF
                 /\ ~cr4_vmxe'[XCpu]
            ELSE /\ xpc' = "resume"
                 /\ guest_regs'.rax = U64(xlog'.hc_ret)
                 /\ xlog'.hc_ret < 0
                 /\ vmx_state'[XCpu] = VMCS_READY
       /\ xpc = "linux" => xpc' = "linux"]_vars

\* shutdown() returned 0 and the CPU is back in Linux.
C13_Witness ==
    /\ xpc = "linux"
    /\ xlog.callee = "shutdown"
    /\ xlog.hc_ret = 0
    /\ guest_regs.rax = {}
    /\ vmx_state[XCpu] = VMXOFF

\* The exit being handled is a control-register access other than a move
\* to CR0 or CR4.
DisallowedCrAccess ==
    /\ exit_reason.basic = "CR_ACCESS"
    /\ ~(exit_qual.type = 0 /\ exit_qual.cr \in {0, 4})

\* The exit being handled is an XSETBV that names another register than
\* XCR0, or leaves x87 state disabled, or enables a feature of the low 32
\* bits that the processor does not support.
UnsupportedXsetbv ==
    /\ exit_reason.basic = "XSETBV"
    /\ \/ guest_regs.rcx # {}
       \/ guest_regs.rax \cap X86_XCR0_FP = {}
       \/ guest_regs.rax \cap (Low32 \ cpuid_eax_0d) # {}

\* C16: a VM exit for a disallowed control-register access, for an
\* unsupported XSETBV or for a hypercall from an unexpected privilege level
\* ends with the handler returning for a VMRESUME, never in panic_stop.
C16_MalformedNeverFatal ==
    [][(/\ xpc = "exit"
        /\ ~exit_reason.failed
        /\ \/ DisallowedCrAccess
           \/ UnsupportedXsetbv
           \/ exit_reason.basic = "VMCALL" /\ UnexpectedPrivilege)
       => xpc' = "resume"]_vars

(***************************************************************************)
(* Claims about the managers without a DMAR unit and about INVEPT          *)
(* (checked under SpecCells and SpecEpt).                                  *)
(***************************************************************************)
\* The step is a call of vtd_linux_cell_shrink, vtd_cell_init or
\* vtd_cell_exit.
VtdCall ==
    \/ op.step \in {"vmx_init", "vtd_shrunk"}
    \/ op.step = "idle" /\ op'.step = "vtd_exit"

\* C15: without a DMAR unit a call of vtd_linux_cell_shrink, vtd_cell_init
\* or vtd_cell_exit neither reads through nor changes the root-entry table,
\* a context table, a domain page table or the page pool.
C15_NoUnitNoOp ==
    [][(dmar_units = 0 /\ VtdCall)
       => /\ ~wild'
          /\ UNCHANGED <<root_entry_table, ctx_tab, vtd_pt, vtd_root,
                         pool_used, page_kind>>]_vars

CpuInitPcs == {"register", "arch_cpu_init", "vmcs", "count", "failed"}

\* Positions of entry() before the CPU holds init_lock.
BeforeLockPcs == {"idle", "spin_lock"}

\* C18: init_early runs once, on the first CPU that acquires init_lock,
\* and has returned when a CPU is inside cpu_init; it is not run again
\* after it failed.  init_late runs at most once, on that CPU, and only
\* when init_early and that CPU's cpu_init left 'error' at 0.
C18_OneTimeWork ==
    /\ [](/\ Len(hist.early_runs) <= 1
          /\ Len(hist.late_runs) <= 1
          /\ (\E c \in Cpus : pc[c] \notin BeforeLockPcs)
                => Len(hist.early_runs) = 1
          /\ hist.late_runs # <<>> => hist.late_runs = hist.early_runs
          /\ \A c \in Cpus : percpu[c].master <=> hist.early_runs = <<c>>)
    /\ [][/\ hist.early_runs' # hist.early_runs
             => /\ \A c \in Cpus : pc[c] \in BeforeLockPcs
                /\ init_lock = NoCpu
                /\ hist.early_runs' = <<init_lock'>>
          /\ hist.late_runs' # hist.late_runs
             => /\ error = 0
                /\ hist.late_runs' = <<init_lock>>
                /\ percpu[init_lock].master
                /\ percpu[init_lock].err = 0
                /\ init_lock \in hist.counted]_vars

\* init_early failed on one CPU and two other CPUs went through entry()
\* afterwards and returned.
C18_Witness ==
    \E c, d, e \in Cpus :
       /\ c # d /\ d # e /\ c # e
       /\ hist.early_runs = <<c>>
       /\ hist.late_runs = <<>>
       /\ hist.counted = {}
       /\ error # 0
       /\ pc[d] = "returned"
       /\ pc[e] = "returned"

\* The CPU is not in the CPU set of the system configuration.
NotConfigured(c) == c >= sysconf.cpu_set_bits \/ c \notin sysconf.cpu_set

\* C19: a CPU whose id is beyond the configured CPU set or not in it fails
\* in register_linux_cpu with -EINVAL: it gets no cell, its bit is not set
\* in the root cell's CPU set, vmx_cpu_init does not run on it, it is not
\* counted in initialized_cpus, and 'error' is nonzero once cpu_init has
\* returned.
C19_AdmissionCheck ==
    /\ [](\A c \in Cpus : NotConfigured(c) =>
            /\ percpu[c].cell = "none"
            /\ c \notin linux_cpu_set
            /\ pc[c] \notin {"arch_cpu_init", "vmcs", "count"}
            /\ vmx_state[c] = VMXOFF
            /\ vmx_trans[c] = {}
            /\ c \notin hist.counted
            /\ initialized_cpus = Cardinality(hist.counted)
            /\ pc[c] = "failed" => percpu[c].err = -EINVAL
            /\ (percpu[c].err # 0 /\ pc[c] # "failed") => error # 0)
    /\ [][\A c \in Cpus :
            (NotConfigured(c) /\ pc[c] = "register" /\ pc'[c] # pc[c])
               => /\ pc'[c] = "failed"
                  /\ percpu'[c].err = -EINVAL
                  /\ initialized_cpus' = initialized_cpus]_vars

\* A CPU that is not configured was refused after another CPU had been
\* counted, and has returned.
C19_Witness ==
    \E c \in Cpus :
       /\ NotConfigured(c)
       /\ percpu[c].err = -EINVAL
       /\ pc[c] = "returned"
       /\ percpu[c].retval = -EINVAL
       /\ initialized_cpus > 0

\* Every CPU is past the last statement of entry() it executes.
AllActivated == \A c \in Cpus : percpu[c].activated /\ pc[c] \in {"guest", "halted"}
AllReturned == \A c \in Cpus : pc[c] = "returned"

\* C20: no CPU returns 0 from entry(), two CPUs that return return the same
\* status, no CPU returns while another has called arch_cpu_activate_vmm,
\* and in the end every CPU has called arch_cpu_activate_vmm or every CPU
\* has returned.
C20_UniformOutcome ==
    /\ [](\A c, d \in Cpus :
            /\ pc[c] = "returned" => percpu[c].retval < 0
            /\ (pc[c] = "returned" /\ pc[d] = "returned")
                  => percpu[c].retval = percpu[d].retval
            /\ percpu[c].activated => pc[d] \notin {"restore", "return", "returned"})
    /\ <>[](AllActivated \/ AllReturned)

\* Every CPU has called arch_cpu_activate_vmm and runs its guest.
C20_Witness ==
    /\ AllActivated
    /\ \A c \in Cpus : pc[c] = "guest"

\* Positions of entry() at which the CPU holds init_lock.
LockedPcs == {"register", "arch_cpu_init", "vmcs", "count", "failed", "late",
              "unlock"}

\* C21: the error flag is set once.  A step changes 'error' only while it
\* is 0 and only on the CPU that holds init_lock; once nonzero it keeps its
\* value, a CPU that left the busy-wait on the flag saw that value, and a
\* CPU that returns returns it.
C21_ErrorSetOnce ==
    /\ [][/\ error # 0 => error' = error
          /\ error' # error
                => /\ init_lock' \in Cpus
                   /\ pc'[init_lock'] \in LockedPcs
                   /\ \A c \in Cpus \ {init_lock'} : pc'[c] \notin LockedPcs]_vars
    /\ [](\A c \in Cpus :
            /\ c \in hist.left_with_error => error # 0
            /\ pc[c] = "returned" => percpu[c].retval = error)

\* The cpu_init of one CPU failed and set the flag; afterwards another CPU,
\* which had no failure of its own, took the lock, skipped cpu_init and
\* returned the same value.
C21_Witness ==
    \E c, d \in Cpus :
       /\ c # d
       /\ percpu[c].err # 0
       /\ error = percpu[c].err
       /\ percpu[d].err = 0
       /\ d \notin hist.counted
       /\ percpu[d].cell = "none"
       /\ pc[d] = "returned"
       /\ percpu[d].retval = percpu[c].err

\* CPUs that have completed a cpu_init in which register_linux_cpu and
\* arch_cpu_init both returned 0.
CpuInitSucceeded ==
    {c \in Cpus :
        /\ pc[c] \notin AdmissionPcs
        /\ percpu[c].err = 0
        /\ percpu[c].cell = "linux"
        /\ <<VMXON, VMCS_READY>> \in vmx_trans[c]}

\* C22: initialized_cpus changes only by +1, in a step of the CPU that
\* holds init_lock and is at the end of a cpu_init whose register_linux_cpu
\* and arch_cpu_init returned 0, while no other CPU is between spin_lock
\* and spin_unlock; in every state it equals the number of CPUs that have
\* completed a successful cpu_init.
C22_CounterMonotonic ==
    /\ [][initialized_cpus' # initialized_cpus
            => /\ initialized_cpus' = initialized_cpus + 1
               /\ init_lock \in Cpus
               /\ init_lock' = init_lock
               /\ pc[init_lock] = "count"
               /\ pc'[init_lock] # "count"
               /\ percpu[init_lock].err = 0
               /\ init_lock \in linux_cpu_set
               /\ vmx_state[init_lock] = VMCS_READY
               /\ \A c \in Cpus \ {init_lock} : pc[c] \notin LockedPcs]_vars
    /\ [](/\ initialized_cpus = Cardinality(CpuInitSucceeded)
          /\ initialized_cpus <= online_cpus
          /\ \A c \in Cpus : pc[c] \in LockedPcs <=> init_lock = c)

\* Two CPUs were counted one after the other and a third is inside its
\* cpu_init, holding the lock, while the first two spin.
C22_Witness ==
    \E c \in Cpus :
       /\ initialized_cpus = 2
       /\ pc[c] = "count"
       /\ init_lock = c
       /\ \A d \in Cpus \ {c} : pc[d] \in {"wait_error", "wait_count"}

\* The CPUs on which entry() is never called.
NotCalled == {c \in Cpus : pc[c] = "not_called"}

\* Positions of the busy-wait loop of entry(), and those after it.
WaitPcs == {"wait_error", "wait_count"}
PastWaitPcs == {"check_error", "restore", "return", "returned", "activate",
                "guest", "halted"}

\* C23: barrier liveness.  When entry() is called on all online_cpus CPUs,
\* in the end every CPU has called arch_cpu_activate_vmm or every CPU has
\* returned.  When it is called on fewer, no CPU is past the busy-wait
\* while 'error' is 0, and in the end either 'error' is nonzero or every
\* CPU that called entry() is in the busy-wait and stays there.
C23_BarrierLiveness ==
    /\ (NotCalled = {}) => <>[](AllActivated \/ AllReturned)
    /\ []((NotCalled # {} /\ error = 0)
            => \A c \in Cpus : pc[c] \notin PastWaitPcs)
    /\ (NotCalled # {})
          => <>[](\/ error # 0 /\ \A c \in Cpus \ NotCalled : pc[c] = "returned"
                  \/ error = 0 /\ \A c \in Cpus \ NotCalled : pc[c] \in WaitPcs)

\* entry() was not called on one CPU; every other CPU was counted and
\* spins, one short of online_cpus, with no error.
C23_Witness ==
    /\ Cardinality(NotCalled) = 1
    /\ error = 0
    /\ initialized_cpus = online_cpus - 1
    /\ \A c \in Cpus \ NotCalled : pc[c] \in WaitPcs /\ c \in hist.counted

\* C24: after vmx_cpu_init on a CPU that passes every capability test,
\* vmx_state is READY only if VMXON, VMCLEAR, VMPTRLD and every write of
\* vmcs_setup succeeded, and then the call returned 0; if one of them
\* failed the call returned -EIO and vmx_state is not READY; if VMXON
\* failed vmx_state is still VMXOFF and CR4.VMXE is clear as before the
\* call.
C24_ReadyOnlyIfAll ==
    (/\ vmx_last.fn = "init"
     /\ ~vmx_last.pre.cr4
     /\ \A f \in DOMAIN GoodHw \ {"vmxon_ok"} : vmx_last.hw[f])
       => LET hw == vmx_last.hw
              run == vmx_last.run
              all == /\ hw.vmxon_ok /\ run.clear_ok /\ run.load_ok
                     /\ \A g \in VmcsWriteGroups : run.writes[g]
          IN  /\ vmx_state[XCpu] = VMCS_READY <=> all
              /\ all <=> vmx_last.ret = 0
              /\ ~all => vmx_last.ret = -EIO
              /\ ~hw.vmxon_ok
                    => /\ vmx_state[XCpu] = VMXOFF
                       /\ ~cr4_vmxe[XCpu]
                       /\ ~vmx_last.vmx_root
              /\ (hw.vmxon_ok /\ ~all)
                    => vmx_state[XCpu] = VMXON /\ cr4_vmxe[XCpu]

\* vmx_cpu_init failed in a write of vmcs_setup that is not its last one,
\* after VMXON, VMCLEAR and VMPTRLD had succeeded.
C24_Witness ==
    /\ vmx_last.fn = "init"
    /\ vmx_last.hw = GoodHw
    /\ vmx_last.run.clear_ok /\ vmx_last.run.load_ok
    /\ ~vmx_last.run.writes["guest_cr"]
    /\ vmx_last.ret = -EIO
    /\ vmx_state[XCpu] = VMXON

\* C25: after vmx_map_memory_region(cell, mem) the EPT maps the region's
\* guest page to the region's page with the write-back memory type and
\* exactly the rights among read, write and execute that mem->access_flags
\* declares, whatever the DMA flag is; no other entry of the EPT changes.
C25_MapPermissions ==
    /\ [](op.step = "mapped" =>
            LET e == ept[op.cell][op.mem.virt] IN
            /\ e.present
            /\ e.phys = op.mem.phys
            /\ e.flags \ {"WB"} = {"R", "W", "X"} \cap op.mem.flags
            /\ "WB" \in e.flags
            /\ e.flags \ {"WB"} \subseteq op.mem.flags)
    /\ [][op'.step = "mapped" =>
            \A g \in GuestPages \ {op'.mem.virt} :
               ept'[op'.cell][g] = ept[op'.cell][g]]_vars

\* A region flagged write and DMA only was mapped over a page that had
\* been mapped with every right.
C25_Witness ==
    /\ op.step = "mapped"
    /\ op.mem.flags = {"W", "DMA"}
    /\ ept[LinuxCellId][op.mem.virt].flags = {"WB", "W"}
    /\ \E g \in SysPages \ {op.mem.virt} :
          ept[LinuxCellId][g].flags = {"WB", "R", "W", "X"}

\* vmx_cell_init has succeeded for the cell and vmx_cell_exit has not run.
HasEpt(c) ==
    \/ cells[c].state \in {"live", "exiting"}
    \/ /\ cells[c].state = "creating"
       /\ op.cell = c
       /\ op.step \in {"vmx_init", "vtd_shrunk"}

\* C26: APIC-page invariant.  For every cell between a successful
\* vmx_cell_init and its vmx_cell_exit, also after vmx_map_memory_region
\* and vmx_unmap_memory_region on that cell, the EPT maps XAPIC_BASE to the
\* APIC access page with read and write and without execute permission.
C26_ApicPageInvariant ==
    ~wild =>
       \A c \in CellIds :
          HasEpt(c) =>
             /\ ept[c][XAPIC_BASE].present
             /\ ept[c][XAPIC_BASE].phys = ApicAccessPage
             /\ ept[c][XAPIC_BASE].flags \cap {"R", "W", "X"} = {"R", "W"}

\* The ports the configuration of a cell permits.
PermittedPorts(config) == (0 .. (config.pio_size - 1)) \ config.pio_blocked

\* C27: I/O-port exclusivity.  Every port that the bitmap of a live
\* non-root cell permits is blocked in the root cell's bitmap; a step of
\* vmx_cell_exit unblocks a port for the root cell only if the exiting
\* cell's configuration and the root cell's configuration both permit it,
\* and never a port that another live cell permits.
C27_PortExclusivity ==
    /\ [](~wild =>
            \A c \in NewCellIds :
               cells[c].state = "live"
                  => Ports \ io_bitmap[c] \subseteq io_bitmap[LinuxCellId])
    /\ [][(~wild /\ op.step = "vtd_exit" /\ op'.step = "idle") =>
            \A p \in io_bitmap[LinuxCellId] \ io_bitmap'[LinuxCellId] :
               /\ p \in PermittedPorts(cells[op.cell].config)
               /\ p \in PermittedPorts(cells[LinuxCellId].config)
               /\ \A d \in NewCellIds \ {op.cell} :
                     cells[d].state = "live" => p \in io_bitmap[d]]_vars

\* The pages of mem_pool that are allocated as context tables.
ContextTables == {p \in pool_used : page_kind[p] = "ctx"}

\* The devices the step removes: those of the configuration that
\* vtd_linux_cell_shrink or vtd_cell_exit is called with.
RemovedInStep ==
    IF op'.step = "vtd_shrunk" THEN Devices(cells[op.cell].config)
    ELSE IF op'.step = "vtd_exit" THEN Devices(cells[op'.cell].config)
    ELSE {}

C29_DmaRestriction ==
    ~wild =>
       \A c \in CellIds :
          /\ \A g \in GuestPages :
                vtd_pt[c][g].present =>
                   \E r \in Regions(cells[c].config) :
                      /\ "DMA" \in r.flags
                      /\ r.virt = g
                      /\ r.phys = vtd_pt[c][g].phys
                      /\ vtd_pt[c][g].flags = r.flags \cap {"R", "W"}
          /\ \A r \in Regions(cells[c].config) :
                "DMA" \notin r.flags =>
                   \A g \in GuestPages :
                      ~(vtd_pt[c][g].present /\ vtd_pt[c][g].phys = r.phys)

\* A cell runs whose region is flagged read, execute and DMA: its VT-d
\* table maps the page read-only, its EPT with read and execute.
C29_Witness ==
    /\ Idle
    /\ \E c \in NewCellIds :
          /\ cells[c].state = "live"
          /\ cells[c].config.mem[1].flags = {"R", "X", "DMA"}
          /\ vtd_pt[c][0] = [present |-> TRUE, phys |-> 0, flags |-> {"R"}]
          /\ ept[c][0].flags = {"WB", "R", "X"}

\* The step is a vmx_cell_init or a vtd_cell_init that returned an error.
CellInitFailed ==
    /\ op.step \in {"vmx_shrunk", "vtd_shrunk"}
    /\ cells'[op.cell].state = "failed"

\* C30: rollback on failure.  When vmx_cell_init or vtd_cell_init returns
\* an error, the page pool, the root entries and the context tables are
\* what they were before the call.
C30_RollbackOnFailure ==
    [][(CellInitFailed /\ ~wild') =>
          /\ pool_used' = pool_used
          /\ root_entry_table' = root_entry_table
          /\ \A p \in pool_used : ctx_tab'[p] = ctx_tab[p]]_vars
(***************************************************************************)
(* Claims about the XSETBV exit, the startup reset and the control         *)
(* registers (checked under SpecExit).                                     *)
(***************************************************************************)
\* The step is vmx_handle_exit() for an XSETBV exit.
XsetbvHandled ==
    /\ xpc = "exit"
    /\ ~exit_reason.failed
    /\ exit_reason.basic = "XSETBV"

\* C31 as stated: an XSETBV exit is answered by executing the request and
\* resuming exactly when rax has the FP bit and no bit outside the supported
\* set, rcx is 0 and rdx is 0; every other request halts the CPU.
C31_XsetbvAsStated ==
    [][XsetbvHandled =>
         IF /\ guest_regs.rax \cap X86_XCR0_FP # {}
            /\ guest_regs.rax \subseteq cpuid_eax_0d
            /\ guest_regs.rcx = {}
            /\ guest_regs.rdx = {}
         THEN xpc' = "resume" /\ xlog'.xsetbv = guest_regs.rax
         ELSE xpc' = "halted" /\ xlog'.xsetbv = {}]_vars

\* C31 (amended): an XSETBV exit is answered by writing the low 32 bits of
\* rax to XCR0 and resuming exactly when those 32 bits have the FP bit and
\* no bit outside the supported set, rcx is 0 and rdx is 0; bits 32..63 of
\* rax are not examined; every other request halts the CPU.
C31_XsetbvLowHalf ==
    [][XsetbvHandled =>
         IF /\ guest_regs.rax \cap X86_XCR0_FP # {}
            /\ (guest_regs.rax \cap Low32) \subseteq cpuid_eax_0d
            /\ guest_regs.rcx = {}
            /\ guest_regs.rdx = {}
         THEN /\ xpc' = "resume"
              /\ xlog'.xsetbv = guest_regs.rax \cap Low32
              /\ vmcs'.GUEST_RIP = vmcs.GUEST_RIP + X86_INST_LEN_XSETBV
         ELSE xpc' = "halted" /\ xlog'.xsetbv = {}]_vars

\* An XSETBV whose rax has the FP bit, no unsupported low bit and bit 40 was
\* executed with the low half, and the CPU is about to resume the guest.
C31_Witness ==
    /\ xpc = "resume"
    /\ exit_reason = [failed |-> FALSE, basic |-> "XSETBV"]
    /\ snap.regs.rax = X86_XCR0_FP \cup {40}
    /\ xlog.xsetbv = X86_XCR0_FP
\* The step is vmx_handle_exit() for an exception/NMI or preemption-timer
\* exit.
EventExitHandled ==
    /\ xpc = "exit"
    /\ ~exit_reason.failed
    /\ exit_reason.basic \in {"EXCEPTION_NMI", "PREEMPTION_TIMER"}

\* The guest state of a CPU that starts in real mode at sel:rip.
RealModeAt(v, regs, sel, base, rip) ==
    /\ v.GUEST_CS_SELECTOR = Bits(sel)
    /\ v.GUEST_CS_BASE = Bits(base)
    /\ v.GUEST_RIP = rip
    /\ v.GUEST_CR3 = {}
    /\ v.GUEST_IA32_EFER = {}
    /\ v.VM_ENTRY_CONTROLS \cap VM_ENTRY_IA32E_MODE = {}
    /\ v.GUEST_ACTIVITY_STATE = "ACTIVE"
    /\ \A r \in DOMAIN regs : regs[r] = {}

\* C32: an exception/NMI or preemption-timer exit clears the preemption
\* timer control; with a pending startup vector v the guest is resumed in
\* real mode at CS v<<8, base v<<12, RIP 0 (boot-processor pseudo vector:
\* 0xf000, 0xf0000, 0xfff0) with CR3, EFER and the registers 0, IA-32e entry
\* off and activity active; without a vector the guest state is unchanged;
\* the CPU halts exactly when a write of the reset failed.
C32_StartupReset ==
    [][EventExitHandled =>
         /\ vmcs'.PIN_BASED_VM_EXEC_CONTROL =
               vmcs.PIN_BASED_VM_EXEC_CONTROL \ PIN_BASED_VMX_PREEMPTION_TIMER
         /\ IF xlog'.sipi < 0
            THEN /\ xpc' = "resume"
                 /\ guest_regs' = guest_regs
                 /\ vmcs' = vmx_disable_preemption_timer(vmcs)
            ELSE /\ xpc' = (IF xlog'.reset_ok THEN "resume" ELSE "halted")
                 /\ xpc' = "resume" =>
                       IF xlog'.sipi = APIC_BSP_PSEUDO_SIPI
                       THEN RealModeAt(vmcs', guest_regs', 61440, 983040, 65520)
                       ELSE RealModeAt(vmcs', guest_regs', xlog'.sipi * 256,
                                       xlog'.sipi * 4096, 0)]_vars

\* The boot processor's pseudo vector was pending at an NMI exit, the reset
\* succeeded and the CPU is about to resume at f000:fff0.
C32_Witness ==
    /\ xpc = "resume"
    /\ exit_reason = [failed |-> FALSE, basic |-> "EXCEPTION_NMI"]
    /\ xlog.sipi = APIC_BSP_PSEUDO_SIPI
    /\ xlog.reset
    /\ vmcs.GUEST_RIP = 65520
    /\ snap.regs.rax # {}
    /\ guest_regs.rax = {}
\* fixed1 and required1 as vmx_set_guest_cr() computes them for CR0 and CR4.
CrFixed1(cr) ==
    IF cr = 0 THEN MSR_IA32_VMX_CR0_FIXED1 \ (X86_CR0_NW \cup X86_CR0_CD)
              ELSE MSR_IA32_VMX_CR4_FIXED1

CrRequired1(cr) ==
    IF cr = 0
    THEN ((MSR_IA32_VMX_CR0_FIXED0 \cap MSR_IA32_VMX_CR0_FIXED1)
             \ (X86_CR0_PE \cup X86_CR0_PG)) \cup X86_CR0_ET
    ELSE MSR_IA32_VMX_CR4_FIXED0 \cap MSR_IA32_VMX_CR4_FIXED1

\* The guest field of a control register is (value AND fixed1) OR required1
\* for the value last written (kept in the read shadow), and its guest/host
\* mask is required1 OR NOT fixed1.
CrMasked(cr, field, shadow, mask) ==
    /\ field = (shadow \cap CrFixed1(cr)) \cup CrRequired1(cr)
    /\ mask = CrRequired1(cr) \cup (AllBits \ CrFixed1(cr))

\* C33: on a CPU whose enablement state is READY, after vmcs_setup and after
\* every handled move to CR0 or CR4, the guest CR0 and CR4 fields are
\* (value AND fixed1) OR required1 and the CR0 and CR4 guest/host masks are
\* required1 OR NOT fixed1.
C33_CrMasking ==
    (vmx_state[XCpu] = VMCS_READY /\ xpc \in {"guest", "exit", "resume"}) =>
        /\ CrMasked(0, vmcs.GUEST_CR0, vmcs.CR0_READ_SHADOW,
                    vmcs.CR0_GUEST_HOST_MASK)
        /\ CrMasked(4, vmcs.GUEST_CR4, vmcs.CR4_READ_SHADOW,
                    vmcs.CR4_GUEST_HOST_MASK)

\* The part of C33 that holds: CR0 is masked in every state of a READY CPU,
\* and CR4 is masked in every state but for the guest/host mask, which is 0
\* until the first reset of the CPU.
CrMaskingButCr4Mask ==
    (vmx_state[XCpu] = VMCS_READY /\ xpc \in {"guest", "exit", "resume"}) =>
        /\ CrMasked(0, vmcs.GUEST_CR0, vmcs.CR0_READ_SHADOW,
                    vmcs.CR0_GUEST_HOST_MASK)
        /\ vmcs.GUEST_CR4 = (vmcs.CR4_READ_SHADOW \cap CrFixed1(4))
                               \cup CrRequired1(4)
        /\ vmcs.CR4_GUEST_HOST_MASK
              \in {{}, CrRequired1(4) \cup (AllBits \ CrFixed1(4))}
(***************************************************************************)
(* Claim about vmx_schedule_vmexit (checked under SpecVmx).                *)
(***************************************************************************)
\* C34: vmx_schedule_vmexit on a CPU whose state is OFF or ON executes no
\* VMCS read or write and changes no VMCS field; on a READY CPU it sets the
\* preemption-timer bit of the pin-based controls and nothing else.
C34_ScheduleOnlyWhenReady ==
    [][vmx_last'.fn = "schedule_vmexit" =>
         IF vmx_state[XCpu] = VMCS_READY
         THEN vmcs' = [vmcs EXCEPT !.PIN_BASED_VM_EXEC_CONTROL =
                                      @ \cup PIN_BASED_VMX_PREEMPTION_TIMER]
         ELSE /\ vmx_last'.done = <<>>
              /\ vmcs' = vmcs]_vars

\* The part of C34 that holds: on a READY CPU the call reads and writes the
\* pin-based controls and sets the preemption-timer bit.
ScheduleWhenReady ==
    [][(vmx_last'.fn = "schedule_vmexit" /\ vmx_state[XCpu] = VMCS_READY) =>
         /\ vmx_last'.done = <<"vmcs_read32", "vmcs_write32">>
         /\ vmcs' = [vmcs EXCEPT !.PIN_BASED_VM_EXEC_CONTROL =
                                     @ \cup PIN_BASED_VMX_PREEMPTION_TIMER]]_vars
(***************************************************************************)
(* Claims about the root entries vtd_remove_device_from_cell follows       *)
(* (checked under SpecCells).                                              *)
(***************************************************************************)
\* vtd_remove_device_from_cell(), called in state s, takes the address of
\* the context table from a root entry that is not marked present.
FollowsAbsentRootEntry(s, device) ==
    ~s.wild /\ ~s.root_entry_table[device.bus].present

\* One of the calls vtd_linux_cell_shrink() makes for devs[n], devs[n+1],
\* ... follows a root entry that is not present.  Up to the first such call
\* no garbage is read.
RECURSIVE ShrinkFollowsAbsent(_, _, _)
ShrinkFollowsAbsent(s, devs, n) ==
    IF n > Len(devs) THEN FALSE
    ELSE \/ FollowsAbsentRootEntry(s, devs[n])
         \/ ShrinkFollowsAbsent(vtd_remove_device_from_cell(s, devs[n], FALSE),
                                devs, n + 1)

\* The same for the calls of vtd_cell_exit(), each followed by
\* vtd_return_device_to_linux().
RECURSIVE ExitFollowsAbsent(_, _, _)
ExitFollowsAbsent(s, devs, n) ==
    IF n > Len(devs) THEN FALSE
    ELSE \/ FollowsAbsentRootEntry(s, devs[n])
         \/ ExitFollowsAbsent(
               vtd_return_device_to_linux(
                  vtd_remove_device_from_cell(s, devs[n], FALSE), devs[n]).s,
               devs, n + 1)

\* The step is a call of vtd_linux_cell_shrink for the cell being created.
VtdShrinkStep == op.step = "vmx_init" /\ op'.step = "vtd_shrunk"

\* The step is a call of vtd_cell_exit for cell op'.cell.
VtdExitStep == op.step = "idle" /\ op'.step = "vtd_exit"

\* C35: no call of vtd_remove_device_from_cell made by vtd_linux_cell_shrink
\* or vtd_cell_exit reads a context entry through a root entry that is not
\* marked present.
C35_NoAbsentRootEntryFollowed ==
    [][/\ (VtdShrinkStep /\ ~wild) =>
            ~ShrinkFollowsAbsent(linux_vtd_destroy(CellState,
                                    cells[op.cell].config.mem, 1),
                                 cells[op.cell].config.devices, 1)
       /\ (VtdExitStep /\ ~wild) =>
            ~ExitFollowsAbsent(CellState, cells[op'.cell].config.devices, 1)
      ]_vars
(***************************************************************************)
(* Claim about two CPUs in the VT-d manager at once (checked under         *)
(* SpecRace).                                                              *)
(***************************************************************************)
\* Both CPUs have left the VT-d manager.
AdmQuiet == \A t \in AdmCpus : adm[t].pc = "done"

\* The device cell 2 was created with: registered when its vtd_cell_init()
\* returned 0.
CreatedDevice == cells[2].config.devices[1]

\* C36: however the statements of a cell creation and of a cell destruction
\* on two CPUs interleave for devices of one bus, no context entry is
\* written into a context table the other CPU has freed, the device of the
\* created cell keeps its present context entry under a present root entry,
\* and each root entry is present iff its context table has a present entry.
C36_ConcurrentAdministration ==
    /\ ~wild
    /\ AdmQuiet =>
         /\ cells[2].state = "live" =>
              /\ root_entry_table[CreatedDevice.bus].present
              /\ ctx_tab[root_entry_table[CreatedDevice.bus].page]
                        [CreatedDevice.devfn].present
         /\ \A b \in Buses :
              root_entry_table[b].present =>
                 /\ root_entry_table[b].page \in pool_used
                 /\ \E f \in Devfns :
                       ctx_tab[root_entry_table[b].page][f].present
         /\ \A p \in pool_used :
              (page_kind[p] = "ctx" /\ \E f \in Devfns : ctx_tab[p][f].present)
                 => \E b \in Buses : /\ root_entry_table[b].present
                                     /\ root_entry_table[b].page = p

====
